---------------------------- MODULE Spec2Model ----------------------------
(***************************************************************************)
(* Event canonicalization and statistical motif mining:                    *)
(*   src/research/rung_extractors/canonicalization.py                      *)
(*   src/research/rung_extractors/intent.py (extract_intent_vector)        *)
(*   src/representations/encoders/motif_mining.py                          *)
(*                                                                         *)
(* Python str values are TLA+ strings (TLC evaluates Len, SubSeq, \o, Head *)
(* and Tail on them), Python lists are sequences, Python dicts are         *)
(* functions, Python None is the record PyNone.                            *)
(***************************************************************************)
EXTENDS Integers, Sequences, FiniteSets, TLC

VARIABLES
    registry,      \* MotifRegistry._registry: hashed motif -> original pattern
    descriptions,  \* MotifRegistry._descriptions: motif -> description
    unified,       \* history: the raw motifs handed to a registering unify_motifs since the last clear()
    op,            \* the function called last ("none" before the first call)
    args,          \* its arguments
    ret,           \* its return value (NoValue while none)
    pc,            \* position of the call in progress
    frame          \* locals of the call in progress

vars == <<registry, descriptions, unified, op, args, ret, pc, frame>>

\* ------------------------------------------------------------------ bounds

\* Number of values the modelled digest takes (sha1 takes 16^40).
HashSpace == 4
\* Longest symbol sequence handed to a miner.
MaxSeqLen == 5
\* Largest max_count / max_total / min_support / max_len tried.
MaxParam == 4
\* Most raw motifs handed to one unify_motifs call, over all its lists.
MaxMotifs == 4
\* Most events of a trace.
MaxEvents == 3
\* Longest sequence over two symbols given to structural_motifs.
MaxHotLen == 10

\* ------------------------------------------------------- Python's builtins

\* A Python value that may be None: None, or a str.
PyNone == [k |-> "none", s |-> ""]
PyStr(s) == [k |-> "str", s |-> s]

NoValue == <<>>

\* {} and d[k] = v
EmptyDict == [x \in {} |-> ""]
DictSet(d, k, v) == [x \in (DOMAIN d) \cup {k} |-> IF x = k THEN v ELSE d[x]]

Min(a, b) == IF a <= b THEN a ELSE b
Max(a, b) == IF a >= b THEN a ELSE b

\* s[i] for a str, 1-based.
CharAt(s, i) == SubSeq(s, i, i)

\* s[a:b] with 0-based non-negative a, b (Python clamps both to len(s)).
StrSlice(s, a, b) ==
    LET lo == Min(a, Len(s))
        hi == Min(b, Len(s))
    IN  IF hi <= lo THEN "" ELSE SubSeq(s, lo + 1, hi)

\* lst[:k]: the first k elements, or all but the last -k when k is negative.
SliceTo(lst, k) ==
    LET n == IF k >= 0 THEN Min(k, Len(lst)) ELSE Max(Len(lst) + k, 0)
    IN  SubSeq(lst, 1, n)

\* s.startswith(p)
StartsWith(s, p) == Len(s) >= Len(p) /\ SubSeq(s, 1, Len(p)) = p

\* p in s (substring)
Contains(s, p) ==
    \E i \in 1..(Len(s) - Len(p) + 1) : SubSeq(s, i, i + Len(p) - 1) = p

RECURSIVE IndexFrom(_, _, _)
IndexFrom(s, c, i) ==
    IF i > Len(s) THEN 0
    ELSE IF CharAt(s, i) = c THEN i
    ELSE IndexFrom(s, c, i + 1)

\* 1-based position of the first occurrence of character c in s, 0 if none.
IndexOf(s, c) == IndexFrom(s, c, 1)

UpperChars == "ABCDEFGHIJKLMNOPQRSTUVWXYZ"
LowerChars == "abcdefghijklmnopqrstuvwxyz"
DigitChars == "0123456789"
HexChars == "0123456789abcdef"

LowerChar(c) ==
    IF IndexOf(UpperChars, c) > 0 THEN CharAt(LowerChars, IndexOf(UpperChars, c)) ELSE c
UpperChar(c) ==
    IF IndexOf(LowerChars, c) > 0 THEN CharAt(UpperChars, IndexOf(LowerChars, c)) ELSE c
IsLetter(c) == IndexOf(UpperChars, c) > 0 \/ IndexOf(LowerChars, c) > 0
IsDigit(c) == IndexOf(DigitChars, c) > 0

RECURSIVE StrLower(_)
\* s.lower()
StrLower(s) == IF s = "" THEN "" ELSE LowerChar(Head(s)) \o StrLower(Tail(s))

RECURSIVE StrUpper(_)
\* s.upper()
StrUpper(s) == IF s = "" THEN "" ELSE UpperChar(Head(s)) \o StrUpper(Tail(s))

RECURSIVE JoinWith(_, _)
\* sep.join(parts)
JoinWith(sep, parts) ==
    IF parts = <<>> THEN ""
    ELSE IF Len(parts) = 1 THEN parts[1]
    ELSE parts[1] \o sep \o JoinWith(sep, Tail(parts))

RECURSIVE SplitOn(_, _)
\* s.split(c) for a one-character separator c: never empty, [""] for "".
SplitOn(s, c) ==
    LET i == IndexOf(s, c)
    IN  IF i = 0 THEN <<s>>
        ELSE <<SubSeq(s, 1, i - 1)>> \o SplitOn(SubSeq(s, i + 1, Len(s)), c)

\* ------------------------------------------------------------------ hashing

\* The characters the modelled digest tells apart (any other counts as 0).
HashAlphabet == "abcdefghijklmnopqrstuvwxyzABCDEFGHIJKLMNOPQRSTUVWXYZ0123456789_.-/ "

\* The number the digest takes a character for.
CharCodes == [c \in {CharAt(HashAlphabet, i) : i \in 1..Len(HashAlphabet)} |->
                 IndexOf(HashAlphabet, c)]
CharCode(c) == IF c \in DOMAIN CharCodes THEN CharCodes[c] ELSE 0

RECURSIVE HashFold(_, _)
HashFold(h, s) ==
    IF s = "" THEN h
    ELSE HashFold((h * 31 + CharCode(Head(s))) % HashSpace, Tail(s))

RECURSIVE Repeat(_, _)
Repeat(c, n) == IF n <= 0 THEN "" ELSE c \o Repeat(c, n - 1)

\* hashlib.sha1(s.encode()).hexdigest()[:n]: a fixed function of the whole
\* string into n hexadecimal characters. Like the truncated digest it is not
\* injective; it takes HashSpace values where sha1 takes 16^n.
Sha1Hex(s, n) == Repeat(CharAt(HexChars, HashFold(7, s) + 1), n)


\* ------------------------------------------------------- list helpers

RECURSIVE Flatten(_)
\* for mlist in lists: out.extend(mlist)
Flatten(lists) == IF lists = <<>> THEN <<>> ELSE Head(lists) \o Flatten(Tail(lists))

InList(x, lst) == \E i \in 1..Len(lst) : lst[i] = x

RECURSIVE Distinct(_)
\* The keys of Counter(lst) in iteration order: each element once, in the
\* order of its first occurrence (dicts keep insertion order).
Distinct(lst) ==
    IF lst = <<>> THEN <<>>
    ELSE LET front == Distinct(SubSeq(lst, 1, Len(lst) - 1))
             x == lst[Len(lst)]
         IN  IF InList(x, front) THEN front ELSE Append(front, x)

\* Counter(lst)[x]
CountOf(lst, x) == Cardinality({i \in 1..Len(lst) : lst[i] = x})

\* Mutant of ListIndex: the index of the last occurrence.
ListIndexLast(lst, x) == (CHOOSE i \in 1..Len(lst) :
                             lst[i] = x /\ \A j \in (i + 1)..Len(lst) : lst[j] # x) - 1

\* lst.index(x), 0-based, for x in lst.
ListIndex(lst, x) == (CHOOSE i \in 1..Len(lst) :
                          lst[i] = x /\ \A j \in 1..(i - 1) : lst[j] # x) - 1

\* ------------------------------------------------------------------ miners

\* Default arguments of the miners (motif_mining.py).
DefaultMaxCount == 100
DefaultMaxTotal == 300
DefaultMinSupport == 2
DefaultMaxLen == 4
HotThreshold == 5

\* Mutant of transition_motifs: the cap max_count is dropped.
TransitionMotifsUncapped(seq, max_count) ==
    IF Len(seq) < 2 THEN <<>>
    ELSE [i \in 1..(Len(seq) - 1) |-> "T_" \o seq[i] \o "_" \o seq[i + 1]]

transition_motifs(seq, max_count) ==
    IF Len(seq) < 2 THEN <<>>
    ELSE SliceTo([i \in 1..(Len(seq) - 1) |-> "T_" \o seq[i] \o "_" \o seq[i + 1]],
                 max_count)

RECURSIVE CycleLoopNoDistinct(_, _)
\* Mutant of CycleLoop: the middle symbol is not compared.
CycleLoopNoDistinct(seq, i) ==
    IF i >= Len(seq) - 2 THEN <<>>
    ELSE (IF seq[i + 1] = seq[i + 3]
          THEN <<"CYCLE_" \o seq[i + 1] \o "_" \o seq[i + 2]>>
          ELSE <<>>) \o CycleLoopNoDistinct(seq, i + 1)

RECURSIVE CycleLoop(_, _)
\* for i in range(len(seq) - 2), from 0-based i on.
CycleLoop(seq, i) ==
    IF i >= Len(seq) - 2 THEN <<>>
    ELSE (IF seq[i + 1] = seq[i + 3] /\ seq[i + 1] # seq[i + 2]
          THEN <<"CYCLE_" \o seq[i + 1] \o "_" \o seq[i + 2]>>
          ELSE <<>>) \o CycleLoop(seq, i + 1)

RECURSIVE HotLoopStrict(_, _)
\* Mutant of HotLoop: a symbol must occur more than HotThreshold times.
HotLoopStrict(seq, syms) ==
    IF syms = <<>> THEN <<>>
    ELSE LET sym == Head(syms)
             k == CountOf(seq, sym)
         IN  (IF k > HotThreshold
              THEN <<"HOT_" \o sym \o "_" \o ToString(k)>>
              ELSE <<>>) \o HotLoopStrict(seq, Tail(syms))

RECURSIVE HotLoop(_, _)
\* for sym, k in cnt.items()
HotLoop(seq, syms) ==
    IF syms = <<>> THEN <<>>
    ELSE LET sym == Head(syms)
             k == CountOf(seq, sym)
         IN  (IF k >= HotThreshold
              THEN <<"HOT_" \o sym \o "_" \o ToString(k)>>
              ELSE <<>>) \o HotLoop(seq, Tail(syms))

\* len(set(seq)) / len(seq) > 0.7, on the integers: the quotient of two
\* small integers rounds to the double 0.7 exactly when it is 7/10.
HighDiversity(seq) ==
    Len(seq) > 0 /\ 10 * Cardinality({seq[i] : i \in 1..Len(seq)}) > 7 * Len(seq)

\* Mutant of structural_motifs: the diversity is looked at first.
StructuralMotifsSwitchingFirst(seq) ==
    IF Len(seq) < 2 THEN <<>>
    ELSE (IF HighDiversity(seq) THEN <<"HIGH_SWITCHING">> ELSE <<>>)
         \o CycleLoop(seq, 0)
         \o HotLoop(seq, Distinct(seq))

\* Mutant of structural_motifs: no minimum length.
StructuralMotifsNoMinimum(seq) ==
    CycleLoop(seq, 0)
    \o HotLoop(seq, Distinct(seq))
    \o (IF HighDiversity(seq) THEN <<"HIGH_SWITCHING">> ELSE <<>>)

structural_motifs(seq) ==
    IF Len(seq) < 2 THEN <<>>
    ELSE CycleLoop(seq, 0)
         \o HotLoop(seq, Distinct(seq))
         \o (IF HighDiversity(seq) THEN <<"HIGH_SWITCHING">> ELSE <<>>)

\* Mutant of SupportIn: every occurrence of item counts, not every row once.
SupportInOccurrences(projected_db, item) == CountOf(Flatten(projected_db), item)

\* counts[item] after the counting loop: the rows of the projected database
\* that contain item (each row counts it once, through `visited`).
SupportIn(projected_db, item) ==
    Cardinality({r \in 1..Len(projected_db) : InList(item, projected_db[r])})

\* Mutant of NewDb: a row is projected at every occurrence of the item, one
\* new row for each.
NewDbEveryOccurrence(projected_db, item) ==
    Flatten([r \in 1..Len(projected_db) |->
                LET s == projected_db[r]
                    RowAt(i) == IF s[i] = item THEN <<SubSeq(s, i + 1, Len(s))>> ELSE <<>>
                IN  Flatten([i \in 1..Len(s) |-> RowAt(i)])])

RECURSIVE NewDbKeepsItem(_, _)
\* Mutant of NewDb: the row is cut at the item (s[idx:]), not after it.
NewDbKeepsItem(projected_db, item) ==
    IF projected_db = <<>> THEN <<>>
    ELSE LET s == Head(projected_db)
         IN  (IF InList(item, s)
              THEN <<SubSeq(s, ListIndex(s, item) + 1, Len(s))>>
              ELSE <<>>) \o NewDbKeepsItem(Tail(projected_db), item)

RECURSIVE NewDb(_, _)
\* new_db: each row cut to what follows the first occurrence of item; rows
\* without it (ValueError) are skipped.
NewDb(projected_db, item) ==
    IF projected_db = <<>> THEN <<>>
    ELSE LET s == Head(projected_db)
         IN  (IF InList(item, s)
              THEN <<SubSeq(s, ListIndex(s, item) + 2, Len(s))>>
              ELSE <<>>) \o NewDb(Tail(projected_db), item)

RECURSIVE project(_, _, _, _)
RECURSIVE ExtendLoop(_, _, _, _, _)
\* for item, count in counts.items(), over the items left: the patterns
\* appended, in the order they are appended.
ExtendLoop(prefix, projected_db, items, min_support, max_len) ==
    IF items = <<>> THEN <<>>
    ELSE LET item == Head(items)
             new_prefix == Append(prefix, item)
         IN  (IF SupportIn(projected_db, item) >= min_support
              THEN <<new_prefix>>
                   \o (IF Len(new_prefix) < max_len
                       THEN project(new_prefix, NewDb(projected_db, item),
                                    min_support, max_len)
                       ELSE <<>>)
              ELSE <<>>)
             \o ExtendLoop(prefix, projected_db, Tail(items), min_support, max_len)

\* prefixspan.project: what one call appends to `patterns`.
project(prefix, projected_db, min_support, max_len) ==
    IF Len(prefix) >= max_len THEN <<>>
    ELSE ExtendLoop(prefix, projected_db, Distinct(Flatten(projected_db)),
                    min_support, max_len)

prefixspan(seq, min_support, max_len) == project(<<>>, <<seq>>, min_support, max_len)

RECURSIVE FormatPatternsAll(_)
\* Mutant of FormatPatterns: a pattern of one symbol is formatted too.
FormatPatternsAll(patterns) ==
    IF patterns = <<>> THEN <<>>
    ELSE <<"PS_" \o JoinWith("_", Head(patterns))>> \o FormatPatternsAll(Tail(patterns))

RECURSIVE FormatPatterns(_)
\* [f"PS_{'_'.join(p)}" for p in patterns if len(p) >= 2]
FormatPatterns(patterns) ==
    IF patterns = <<>> THEN <<>>
    ELSE (IF Len(Head(patterns)) >= 2
          THEN <<"PS_" \o JoinWith("_", Head(patterns))>>
          ELSE <<>>) \o FormatPatterns(Tail(patterns))

prefixspan_motifs(seq, min_support, max_len) ==
    IF Len(seq) < 2 THEN <<>>
    ELSE FormatPatterns(prefixspan(seq, min_support, max_len))

RECURSIVE RepeatedLoopStrict(_, _)
\* Mutant of RepeatedLoop: an n-gram must occur more than twice.
RepeatedLoopStrict(grams, keys) ==
    IF keys = <<>> THEN <<>>
    ELSE (IF CountOf(grams, Head(keys)) > 2
          THEN <<"SQ_" \o JoinWith("_", Head(keys))>>
          ELSE <<>>) \o RepeatedLoopStrict(grams, Tail(keys))

RECURSIVE RepeatedLoop(_, _)
\* for gram, count in gram_counts.items(): if count >= 2
RepeatedLoop(grams, keys) ==
    IF keys = <<>> THEN <<>>
    ELSE (IF CountOf(grams, Head(keys)) >= 2
          THEN <<"SQ_" \o JoinWith("_", Head(keys))>>
          ELSE <<>>) \o RepeatedLoop(grams, Tail(keys))

sequitur_rules(seq) ==
    IF Len(seq) < 2 THEN <<>>
    ELSE LET bigrams == [i \in 1..(Len(seq) - 1) |-> <<seq[i], seq[i + 1]>>]
             trigrams == [i \in 1..(Len(seq) - 2) |-> <<seq[i], seq[i + 1], seq[i + 2]>>]
         IN  RepeatedLoop(bigrams, Distinct(bigrams))
             \o (IF Len(seq) >= 3
                 THEN RepeatedLoop(trigrams, Distinct(trigrams))
                 ELSE <<>>)

\* ------------------------------------------------------- MotifRegistry

\* Mutant of MotifRegistry.register: the arguments are taken in the other order.
RegisterSwapped(reg, original, hashed) == DictSet(reg, original, hashed)

\* MotifRegistry.register: cls._registry[hashed] = original
MotifRegistry_register(reg, original, hashed) == DictSet(reg, hashed, original)

\* MotifRegistry.get_original: cls._registry.get(hashed)
get_original(reg, hashed) ==
    IF hashed \in DOMAIN reg THEN PyStr(reg[hashed]) ELSE PyNone

RECURSIVE Title(_, _)
\* s.title(), from s on with `cased` telling whether the character before
\* was a letter: a letter after a letter is lowered, any other is raised.
Title(s, cased) ==
    IF s = "" THEN ""
    ELSE LET c == Head(s)
         IN  (IF IsLetter(c)
              THEN (IF cased THEN LowerChar(c) ELSE UpperChar(c))
              ELSE c) \o Title(Tail(s), IsLetter(c))

RECURSIVE Replace(_, _, _)
\* s.replace(old, new) for a non-empty old
Replace(s, old, new) ==
    IF Len(s) < Len(old) THEN s
    ELSE IF StartsWith(s, old)
    THEN new \o Replace(SubSeq(s, Len(old) + 1, Len(s)), old, new)
    ELSE Head(s) \o Replace(Tail(s), old, new)

RECURSIVE AfterLast(_, _)
\* s.split(sep)[-1]: what follows the last occurrence of sep, s without one.
AfterLast(s, sep) ==
    IF ~Contains(s, sep) THEN s
    ELSE IF StartsWith(s, sep) THEN AfterLast(SubSeq(s, Len(sep) + 1, Len(s)), sep)
    ELSE AfterLast(Tail(s), sep)

AllDigits(s) == s # "" /\ \A i \in 1..Len(s) : IsDigit(CharAt(s, i))

RECURSIVE DigitRun(_)
\* The digits s starts with.
DigitRun(s) ==
    IF s = "" \/ ~IsDigit(Head(s)) THEN "" ELSE Head(s) \o DigitRun(Tail(s))

RECURSIVE FirstDigitRun(_)
\* re.search(r'(\d+)', s).group(1), "" when there is no match.
FirstDigitRun(s) ==
    IF s = "" THEN ""
    ELSE IF IsDigit(Head(s)) THEN DigitRun(s)
    ELSE FirstDigitRun(Tail(s))

\* re.search(r'_(\d+)$', s).group(1), "" when there is no match: the digits
\* after the last underscore, when only digits follow it.
TrailingCount(s) ==
    LET parts == SplitOn(s, "_")
    IN  IF Len(parts) >= 2 /\ AllDigits(parts[Len(parts)])
        THEN parts[Len(parts)]
        ELSE ""

HexValue(c) == IndexOf(HexChars, LowerChar(c)) - 1

RECURSIVE HexInt(_, _)
HexInt(acc, s) ==
    IF s = "" THEN acc ELSE HexInt(acc * 16 + HexValue(Head(s)), Tail(s))

\* Whether int(s, 16) parses: hexadecimal digits, single underscores allowed
\* between them. (A sign, a 0x prefix or blanks around the digits, which
\* int() also takes, occur in no motif of the model.)
IsHex(s) ==
    /\ s # ""
    /\ \A i \in 1..Len(s) : CharAt(s, i) = "_" \/ HexValue(CharAt(s, i)) >= 0
    /\ CharAt(s, 1) # "_" /\ CharAt(s, Len(s)) # "_"
    /\ ~Contains(s, "__")

NumTemplates == 8
PatternTypes == <<"Edit Sequence", "Code Change Flow", "Multi-File Update",
                  "Refactor Pattern", "Navigation Sequence", "Development Flow",
                  "Modification Chain", "Workflow Step">>

\* MotifRegistry._describe_original_pattern
describe_original_pattern(pattern) ==
    IF StartsWith(pattern, "T_")
    THEN (IF Len(SplitOn(StrSlice(pattern, 2, Len(pattern)), "_")) >= 4
          THEN "Sequential Edit Transition"
          ELSE "Edit Transition")
    ELSE IF StartsWith(pattern, "PS_")
    THEN LET parts == SplitOn(StrSlice(pattern, 3, Len(pattern)), "_")
             n_events == CountOf(parts, "EV")
         IN  IF n_events >= 3
             THEN "Frequent " \o ToString(n_events) \o "-Step Sequence"
             ELSE "Frequent Edit Sequence"
    ELSE IF StartsWith(pattern, "SQ_") THEN "Compressed Edit Pattern"
    ELSE IF StartsWith(pattern, "CYCLE_") THEN "Iterative Edit Cycle"
    ELSE IF StartsWith(pattern, "HOT_")
    THEN (IF TrailingCount(pattern) # ""
          THEN "Edit Hotspot (" \o TrailingCount(pattern) \o "x)"
          ELSE "Edit Hotspot")
    ELSE IF pattern = "HIGH_SWITCHING" THEN "High Edit Diversity"
    ELSE IF Contains(pattern, "INTENT_")
    THEN Title(SplitOn(AfterLast(pattern, "INTENT_"), "_")[1], FALSE) \o " Intent Signal"
    ELSE IF StartsWith(pattern, "EV_") THEN "Edit Event"
    ELSE "Workflow Pattern"

\* MotifRegistry._describe_pattern_by_type
describe_pattern_by_type(motif) ==
    IF StartsWith(motif, "M_")
    THEN LET hash_val == StrSlice(motif, 2, 6)
             idx == IF IsHex(hash_val)
                    THEN HexInt(0, Replace(hash_val, "_", "")) % NumTemplates
                    ELSE 0
         IN  PatternTypes[idx + 1] \o " #" \o hash_val
    ELSE IF StartsWith(motif, "T_") THEN "Edit Transition"
    ELSE IF StartsWith(motif, "PS_") THEN "Frequent Sequence"
    ELSE IF StartsWith(motif, "SQ_") THEN "Compression Rule"
    ELSE IF StartsWith(motif, "CYCLE_") THEN "Edit Cycle"
    ELSE IF StartsWith(motif, "HOT") \/ StartsWith(motif, "HOTSPOT")
    THEN (IF FirstDigitRun(motif) # ""
          THEN "Edit Hotspot (" \o FirstDigitRun(motif) \o "x)"
          ELSE "Edit Hotspot")
    ELSE IF StartsWith(motif, "INTENT_TYPE_")
    THEN Title(Replace(Replace(motif, "INTENT_TYPE_", ""), "_", " "), FALSE) \o " Intent"
    ELSE IF StartsWith(motif, "INTENT_TRANS") THEN "Intent Transition"
    ELSE IF StartsWith(motif, "INTENT_")
    THEN Title(Replace(Replace(motif, "INTENT_", ""), "_", " "), FALSE) \o " Signal"
    ELSE IF StartsWith(motif, "DEPENDENCY") THEN "Dependency Traversal"
    ELSE IF Contains(StrUpper(motif), "SWITCHING") THEN "High Edit Diversity"
    ELSE IF StartsWith(motif, "NG_") THEN "N-gram Pattern"
    ELSE IF Len(motif) <= 20 THEN motif
    ELSE StrSlice(motif, 0, 17) \o "..."

\* MotifRegistry._generate_description, with the registry reg
generate_description(reg, motif) ==
    IF StartsWith(motif, "M_") /\ motif \in DOMAIN reg
    THEN describe_original_pattern(reg[motif])
    ELSE describe_pattern_by_type(motif)

\* Mutant of describe: the cache is written and never read.
DescribeUncached(reg, descs, motif) ==
    [ret |-> IF StartsWith(motif, "M_") /\ motif \in DOMAIN reg
             THEN describe_original_pattern(reg[motif])
             ELSE describe_pattern_by_type(motif),
     descriptions |-> DictSet(descs, motif,
                              IF StartsWith(motif, "M_") /\ motif \in DOMAIN reg
                              THEN describe_original_pattern(reg[motif])
                              ELSE describe_pattern_by_type(motif))]

\* MotifRegistry.describe, with the registry reg and the cache descs: what it
\* returns and the cache it leaves.
describe(reg, descs, motif) ==
    IF motif \in DOMAIN descs
    THEN [ret |-> descs[motif], descriptions |-> descs]
    ELSE LET desc == generate_description(reg, motif)
         IN  [ret |-> desc, descriptions |-> DictSet(descs, motif, desc)]

\* MotifRegistry._categorize, with the registry reg
categorize(reg, motif) ==
    LET original == IF motif \in DOMAIN reg THEN reg[motif] ELSE motif
    IN  IF \E p \in {"T_", "PS_", "TRANS_", "NG_"} : StartsWith(motif, p)
        THEN "Sequential Pattern"
        ELSE IF StartsWith(motif, "M_")
        THEN (IF original # motif /\ StartsWith(original, "T_") THEN "Sequential Pattern"
              ELSE IF original # motif /\ StartsWith(original, "PS_") THEN "Frequent Sequence"
              ELSE IF original # motif /\ StartsWith(original, "SQ_") THEN "Compression Pattern"
              ELSE IF original # motif /\ StartsWith(original, "CYCLE_") THEN "Iterative Pattern"
              ELSE IF original # motif /\ StartsWith(original, "HOT_") THEN "Hotspot Pattern"
              ELSE "Mined Pattern")
        ELSE IF StartsWith(motif, "CYCLE_") \/ Contains(motif, "CYCLE") THEN "Iterative Pattern"
        ELSE IF StartsWith(motif, "HOT") \/ StartsWith(motif, "HOTSPOT") THEN "Hotspot Pattern"
        ELSE IF Contains(StrUpper(motif), "SWITCHING") THEN "Diversity Pattern"
        ELSE IF StartsWith(motif, "INTENT_") THEN "Intent Signal"
        ELSE IF StartsWith(motif, "DEPENDENCY") THEN "Dependency Pattern"
        ELSE IF StartsWith(motif, "SQ_") THEN "Compression Pattern"
        ELSE "Other Pattern"

\* MotifRegistry.get_category
get_category(reg, motif) == categorize(reg, motif)

\* ------------------------------------------------------------ unify_motifs

HashLen == 10

\* h = hashlib.sha1(m.encode()).hexdigest()[:10]
MotifHash(m) == Sha1Hex(m, HashLen)
\* hashed_motif = f"M_{h}"
HashedMotif(m) == "M_" \o MotifHash(m)

RECURSIVE UnifyLoopRegistersSeen(_, _, _, _, _)
\* Mutant of UnifyLoop: a motif whose hash the call has seen is registered too.
UnifyLoopRegistersSeen(motifs, hashed, seen_hashes, reg, register) ==
    IF motifs = <<>> THEN [hashed |-> hashed, registry |-> reg]
    ELSE LET m == Head(motifs)
             h == MotifHash(m)
             hashed_motif == "M_" \o h
         IN  UnifyLoopRegistersSeen(
                 Tail(motifs),
                 IF h \notin seen_hashes THEN Append(hashed, hashed_motif) ELSE hashed,
                 seen_hashes \cup {h},
                 IF register THEN MotifRegistry_register(reg, m, hashed_motif) ELSE reg,
                 register)

RECURSIVE UnifyLoop(_, _, _, _, _)
\* for m in motifs, over the motifs left, with the loop's locals hashed and
\* seen_hashes and the registry as it stands: the locals and the registry
\* when the loop ends.
UnifyLoop(motifs, hashed, seen_hashes, reg, register) ==
    IF motifs = <<>> THEN [hashed |-> hashed, registry |-> reg]
    ELSE LET m == Head(motifs)
             h == MotifHash(m)
             hashed_motif == "M_" \o h
         IN  IF h \notin seen_hashes
             THEN UnifyLoop(Tail(motifs), Append(hashed, hashed_motif),
                            seen_hashes \cup {h},
                            IF register
                            THEN MotifRegistry_register(reg, m, hashed_motif)
                            ELSE reg,
                            register)
             ELSE UnifyLoop(Tail(motifs), hashed, seen_hashes, reg, register)

\* Mutant of unify_motifs: a hash the registry already holds is not returned
\* again.
UnifyMotifsSkipsRegistered(motif_lists, max_total, register, reg) ==
    LET end == UnifyLoop(Flatten(motif_lists), <<>>, {}, reg, register)
        Fresh(h) == h \notin DOMAIN reg
    IN  [ret |-> SliceTo(SelectSeq(end.hashed, Fresh), max_total),
         registry |-> end.registry]

\* Mutant of unify_motifs: the mapping is registered whatever `register` says.
UnifyMotifsAlwaysRegisters(motif_lists, max_total, register, reg) ==
    LET end == UnifyLoop(Flatten(motif_lists), <<>>, {}, reg, TRUE)
    IN  [ret |-> SliceTo(end.hashed, max_total), registry |-> end.registry]

\* Mutant of unify_motifs: the bound max_total is dropped.
UnifyMotifsUnbounded(motif_lists, max_total, register, reg) ==
    LET end == UnifyLoop(Flatten(motif_lists), <<>>, {}, reg, register)
    IN  [ret |-> end.hashed, registry |-> end.registry]

\* Mutant of unify_motifs: the bound is applied to the raw motifs before they
\* are deduplicated, so a duplicate takes a place of the budget.
UnifyMotifsBoundsRaw(motif_lists, max_total, register, reg) ==
    LET end == UnifyLoop(SliceTo(Flatten(motif_lists), max_total), <<>>, {}, reg, register)
    IN  [ret |-> end.hashed, registry |-> end.registry]

\* unify_motifs(*motif_lists, max_total, register), called with the registry
\* reg: its return value and the registry it leaves.
unify_motifs(motif_lists, max_total, register, reg) ==
    LET end == UnifyLoop(Flatten(motif_lists), <<>>, {}, reg, register)
    IN  [ret |-> SliceTo(end.hashed, max_total), registry |-> end.registry]

\* motifs_from_sequence(seq, max_total), called with the registry reg.
motifs_from_sequence(seq, max_total, reg) ==
    IF seq = <<>> \/ Len(seq) < 2 THEN [ret |-> <<>>, registry |-> reg]
    ELSE unify_motifs(<<transition_motifs(seq, DefaultMaxCount),
                        structural_motifs(seq),
                        prefixspan_motifs(seq, 2, 4),
                        sequitur_rules(seq)>>,
                      max_total, TRUE, reg)

\* The raw motifs motifs_from_sequence hands to unify_motifs.
MinedRaw(seq) ==
    IF Len(seq) < 2 THEN <<>>
    ELSE Flatten(<<transition_motifs(seq, DefaultMaxCount), structural_motifs(seq),
                   prefixspan_motifs(seq, 2, 4), sequitur_rules(seq)>>)

\* ------------------------------------------------------------ canonicalization.py

\* A Python value read from an event: None (or a missing key, which .get
\* reads as None), a str, or an int given by its decimal text.
PyInt(s) == [k |-> "int", s |-> s]
\* bool(v)
Truthy(v) == (v.k = "str" /\ v.s # "") \/ (v.k = "int" /\ v.s # "0")
\* a or b
PyOr(a, b) == IF Truthy(a) THEN a ELSE b
\* str(v) for a str or an int
PyToStr(v) == v.s

Delimiters == "._/\\-"
Whitespace == " \t\n"

IsDelimiter(c) == IndexOf(Delimiters, c) > 0

RECURSIVE FirstWhere(_, _, _)
\* The first position from i on whose character is a delimiter (want = TRUE)
\* or is none (want = FALSE); Len(s) + 1 when there is none.
FirstWhere(s, i, want) ==
    IF i > Len(s) THEN Len(s) + 1
    ELSE IF IsDelimiter(CharAt(s, i)) = want THEN i
    ELSE FirstWhere(s, i + 1, want)

RECURSIVE ReSplit(_)
\* re.split(r"[._/\\\-]+", s): the pieces between the runs of delimiters, an
\* empty piece before a leading run and after a trailing one.
ReSplit(s) ==
    LET i == FirstWhere(s, 1, TRUE)
    IN  IF i > Len(s) THEN <<s>>
        ELSE <<SubSeq(s, 1, i - 1)>>
             \o ReSplit(SubSeq(s, FirstWhere(s, i, FALSE), Len(s)))

RECURSIVE LStrip(_)
LStrip(s) ==
    IF s # "" /\ IndexOf(Whitespace, Head(s)) > 0 THEN LStrip(Tail(s)) ELSE s

RECURSIVE RStrip(_)
RStrip(s) ==
    IF s # "" /\ IndexOf(Whitespace, CharAt(s, Len(s))) > 0
    THEN RStrip(SubSeq(s, 1, Len(s) - 1))
    ELSE s

\* s.strip()
Strip(s) == RStrip(LStrip(s))

SymbolLen == 6

\* Mutant of canonicalize_event: the last token is the head, not the first.
CanonicalizeLastToken(event) ==
    IF event.k # "dict" THEN "EV_OTHER"
    ELSE LET event_type == PyOr(PyOr(event.type, event.operation), event.verb)
             raw == IF event_type.k = "none" THEN "other"
                    ELSE StrLower(PyToStr(event_type))
             parts == ReSplit(raw)
         IN  IF Strip(parts[Len(parts)]) = "" THEN "EV_OTHER"
             ELSE "EV_" \o Sha1Hex(Strip(parts[Len(parts)]), SymbolLen)

\* Mutant of canonicalize_event: the whole lowercased type is hashed, not its head.
CanonicalizeWholeType(event) ==
    IF event.k # "dict" THEN "EV_OTHER"
    ELSE LET event_type == PyOr(PyOr(event.type, event.operation), event.verb)
             raw == IF event_type.k = "none" THEN "other"
                    ELSE StrLower(PyToStr(event_type))
         IN  IF Strip(raw) = "" THEN "EV_OTHER"
             ELSE "EV_" \o Sha1Hex(Strip(raw), SymbolLen)

canonicalize_event(event) ==
    IF event.k # "dict" THEN "EV_OTHER"
    ELSE LET event_type == PyOr(PyOr(event.type, event.operation), event.verb)
             raw == IF event_type.k = "none" THEN "other"
                    ELSE StrLower(PyToStr(event_type))
             parts == ReSplit(raw)
         IN  IF parts = <<>> THEN "EV_OTHER"
             ELSE LET head == Strip(parts[1])
                  IN  IF head = "" THEN "EV_OTHER"
                      ELSE "EV_" \o Sha1Hex(head, SymbolLen)

\* event.get('details', {}): a dict, a str holding JSON text, or anything
\* else. json.loads is modelled by its outcome: `json` tells whether the text
\* is invalid ("invalid", JSONDecodeError), parses to a dict ("dict", whose
\* fields are then text, content, prompt, message) or parses to any other
\* value ("other": a list, a number, a string, null).
NoDetails == [k |-> "absent", json |-> "", text |-> PyNone, content |-> PyNone,
              prompt |-> PyNone, message |-> PyNone]

\* An event dict with no key set; a key that is absent reads as None.
BlankEvent == [k |-> "dict", type |-> PyNone, operation |-> PyNone, verb |-> PyNone,
               text |-> PyNone, content |-> PyNone, prompt |-> PyNone,
               message |-> PyNone, details |-> NoDetails]

Raised(exception) == [k |-> "raise", s |-> exception]

PromptEventTypes == {"prompt", "prompt_sent", "conversation", "ai_prompt"}

\* extract_prompt_from_event: None, the prompt text, or the exception raised.
extract_prompt_from_event(event) ==
    IF event.k # "dict" THEN PyNone
    ELSE LET event_type == IF event.type.k = "none" THEN ""
                           ELSE StrLower(PyToStr(event.type))
             text == PyOr(PyOr(PyOr(event.text, event.content), event.prompt),
                          event.message)
             details == event.details
         IN  IF event_type \notin PromptEventTypes THEN PyNone
             ELSE IF Truthy(text) THEN PyStr(PyToStr(text))
             ELSE IF details.k \in {"dict", "absent"}
             THEN LET dtext == PyOr(PyOr(PyOr(details.text, details.content),
                                         details.prompt), details.message)
                  IN  IF Truthy(dtext) THEN PyStr(PyToStr(dtext)) ELSE PyNone
             ELSE IF details.k = "str"
             THEN (IF details.json = "invalid" THEN PyNone
                   ELSE IF details.json = "other" THEN Raised("AttributeError")
                   ELSE LET jtext == PyOr(PyOr(details.text, details.content),
                                          details.prompt)
                        IN  IF Truthy(jtext) THEN PyStr(PyToStr(jtext)) ELSE PyNone)
             ELSE PyNone

\* ------------------------------------------------------------ intent.py

\* The keyword lists of extract_intent_vector, in the order they are tried.
IntentKeywords == <<
    <<"INTENT_DEBUG", {"fix", "error", "bug", "debug", "broken", "issue", "problem",
                       "wrong", "crash", "exception"}>>,
    <<"INTENT_FEATURE", {"add", "create", "implement", "new", "build", "make",
                         "feature", "functionality"}>>,
    <<"INTENT_REFACTOR", {"refactor", "clean", "improve", "optimize", "restructure",
                          "reorganize", "simplify"}>>,
    <<"INTENT_TEST", {"test", "verify", "check", "validate", "ensure", "assert", "spec"}>>,
    <<"INTENT_DOCUMENT", {"document", "comment", "explain", "describe", "docstring",
                          "readme", "docs"}>>,
    <<"INTENT_EXPLAIN", {"review", "explain", "understand", "what", "how", "why",
                         "analyze", "inspect"}>>,
    <<"INTENT_NAVIGATE", {"browse", "explore", "find", "search", "look", "navigate",
                          "goto"}>>,
    <<"INTENT_CONFIGURE", {"config", "setup", "install", "configure", "settings",
                           "preferences"}>>,
    <<"INTENT_DEPLOY", {"deploy", "release", "publish", "ship", "production", "staging"}>>,
    <<"INTENT_REVIEW", {"review", "pr", "pull request", "code review", "feedback"}>> >>

RECURSIVE IntentLoop(_, _)
IntentLoop(text_lower, k) ==
    IF k > Len(IntentKeywords) THEN <<>>
    ELSE (IF \E word \in IntentKeywords[k][2] : Contains(text_lower, word)
          THEN <<IntentKeywords[k][1]>>
          ELSE <<>>) \o IntentLoop(text_lower, k + 1)

\* extract_intent_vector(text) for a str
extract_intent_vector(text) ==
    IF text = "" THEN <<"INTENT_OTHER">>
    ELSE LET intents == IntentLoop(StrLower(text), 1)
         IN  IF intents = <<>> THEN <<"INTENT_OTHER">> ELSE intents

\* intent_tokens_for_prompt(prompt, include_llm). The classifier is the one
\* constructed with no OPENROUTER_API_KEY in the environment (enabled is
\* False): classify() returns "OTHER" without a request.
intent_tokens_for_prompt(prompt, include_llm) ==
    extract_intent_vector(prompt)
    \o (IF include_llm THEN <<"INTENT_LLM_" \o "OTHER">> ELSE <<>>)

\* ------------------------------------------------------------ the miners, called on one sequence

Symbols == {"A", "B", "C"}
SeqsUpTo(S, n) == UNION {[1..k -> S] : k \in 0..n}

Idle == /\ registry = EmptyDict
        /\ descriptions = EmptyDict
        /\ unified = {}
        /\ op = "none"
        /\ ret = NoValue
        /\ pc = "ready"
        /\ frame = NoValue

InitMine == /\ Idle
            /\ args \in {[seq |-> s] : s \in SeqsUpTo(Symbols, MaxSeqLen)}

Returned(name, a, r) ==
    /\ op' = name
    /\ args' = a
    /\ ret' = r
    /\ pc' = "done"

CallTransitionMotifs ==
    /\ pc = "ready"
    /\ \E max_count \in 0..MaxParam :
          Returned("transition_motifs",
                   [seq |-> args.seq, max_count |-> max_count],
                   transition_motifs(args.seq, max_count))
    /\ UNCHANGED <<registry, descriptions, unified, frame>>

CallStructuralMotifs ==
    /\ pc = "ready"
    /\ Returned("structural_motifs", args, structural_motifs(args.seq))
    /\ UNCHANGED <<registry, descriptions, unified, frame>>

CallPrefixspan ==
    /\ pc = "ready"
    /\ \E min_support \in 0..MaxParam, max_len \in 0..MaxParam :
          Returned("prefixspan",
                   [seq |-> args.seq, min_support |-> min_support, max_len |-> max_len],
                   prefixspan(args.seq, min_support, max_len))
    /\ UNCHANGED <<registry, descriptions, unified, frame>>

CallPrefixspanMotifs ==
    /\ pc = "ready"
    /\ \E min_support \in 0..MaxParam, max_len \in 0..MaxParam :
          Returned("prefixspan_motifs",
                   [seq |-> args.seq, min_support |-> min_support, max_len |-> max_len],
                   prefixspan_motifs(args.seq, min_support, max_len))
    /\ UNCHANGED <<registry, descriptions, unified, frame>>

CallSequiturRules ==
    /\ pc = "ready"
    /\ Returned("sequitur_rules", args, sequitur_rules(args.seq))
    /\ UNCHANGED <<registry, descriptions, unified, frame>>

\* motifs_from_sequence on the sequence, or after it on an empty or
\* one-symbol sequence, with the registry the earlier calls left.
CallMotifsFromSequence ==
    /\ pc \in {"ready", "mined"}
    /\ \E seq \in {args.seq} \cup SeqsUpTo(Symbols, 1) :
          LET out == motifs_from_sequence(seq, DefaultMaxTotal, registry)
          IN  /\ op' = "motifs_from_sequence"
              /\ args' = [seq |-> seq]
              /\ ret' = out.ret
              /\ registry' = out.registry
              /\ unified' = unified \cup {MinedRaw(seq)[i] : i \in 1..Len(MinedRaw(seq))}
    /\ pc' = "mined"
    /\ UNCHANGED <<descriptions, frame>>

NextMine ==
    \/ CallMotifsFromSequence
    \/ CallTransitionMotifs
    \/ CallStructuralMotifs
    \/ CallPrefixspan
    \/ CallPrefixspanMotifs
    \/ CallSequiturRules

SpecMine == InitMine /\ [][NextMine]_vars

\* ------------------------------------------------------------ structural_motifs on longer sequences

\* Sequences in which a symbol occurs five times and the symbols are diverse:
\* 10 distinct of 14 with a cycle, 7 distinct of 10 (the ratio is 0.7
\* exactly), 9 distinct of 13.
DiverseSeqs == {
    <<"A", "B", "A", "A", "A", "A", "C", "D", "E", "F", "G", "H", "I", "J">>,
    <<"A", "B", "C", "D", "E", "F", "G", "A", "A", "A">>,
    <<"A", "A", "A", "A", "A", "B", "C", "D", "E", "F", "G", "H", "I">> }

StructuralSeqs ==
    SeqsUpTo({"A", "B"}, MaxHotLen) \cup SeqsUpTo(Symbols, MaxSeqLen) \cup DiverseSeqs

InitStructural ==
    /\ Idle
    /\ args \in {[seq |-> s] : s \in StructuralSeqs}

NextStructural == CallStructuralMotifs

SpecStructural == InitStructural /\ [][NextStructural]_vars

\* ------------------------------------------------------------ prefixspan, call by call

\* Longest sequence of a prefixspan call followed call by call.
MaxProjLen == 3

\* frame is the run of one prefixspan call: the stack of project calls, each
\* with its prefix, its projected database and the items of counts.items()
\* its loop has still to visit, and the list `patterns`.
InitProject ==
    /\ Idle
    /\ args \in {[seq |-> s, min_support |-> ms, max_len |-> ml] :
                    s \in SeqsUpTo({"A", "B"}, MaxProjLen),
                    ms \in (0 - 1)..2,
                    ml \in (0 - 1)..MaxParam}

\* prefixspan: patterns = [], then project([], [seq]), which returns at once
\* (nothing to visit) when len(prefix) >= max_len.
CallProject ==
    /\ pc = "ready"
    /\ pc' = "running"
    /\ op' = "prefixspan"
    /\ frame' = [stack |-> <<[prefix |-> <<>>,
                              projected_db |-> <<args.seq>>,
                              items |-> IF 0 >= args.max_len THEN <<>>
                                        ELSE Distinct(Flatten(<<args.seq>>))]>>,
                 patterns |-> <<>>]
    /\ UNCHANGED <<registry, descriptions, unified, args, ret>>

\* One pass of `for item, count in counts.items()` in the innermost project
\* call: a frequent item extends the prefix, the pattern is recorded, and
\* project is called on the new database while the prefix is short of max_len.
ExtendProject ==
    /\ pc = "running"
    /\ frame.stack # <<>>
    /\ LET depth == Len(frame.stack)
           top == frame.stack[depth]
       IN  /\ top.items # <<>>
           /\ LET item == Head(top.items)
                  new_prefix == Append(top.prefix, item)
                  new_db == NewDb(top.projected_db, item)
                  rest == [frame.stack EXCEPT ![depth].items = Tail(top.items)]
              IN  frame' =
                    IF SupportIn(top.projected_db, item) >= args.min_support
                    THEN [stack |-> IF Len(new_prefix) < args.max_len
                                    THEN Append(rest,
                                                [prefix |-> new_prefix,
                                                 projected_db |-> new_db,
                                                 items |-> IF Len(new_prefix) >= args.max_len
                                                           THEN <<>>
                                                           ELSE Distinct(Flatten(new_db))])
                                    ELSE rest,
                          patterns |-> Append(frame.patterns, new_prefix)]
                    ELSE [frame EXCEPT !.stack = rest]
    /\ UNCHANGED <<registry, descriptions, unified, op, args, ret, pc>>

\* The innermost project call returns; when it is the first one, prefixspan
\* returns patterns.
ReturnProject ==
    /\ pc = "running"
    /\ frame.stack # <<>>
    /\ frame.stack[Len(frame.stack)].items = <<>>
    /\ frame' = [frame EXCEPT !.stack = SubSeq(@, 1, Len(@) - 1)]
    /\ IF Len(frame.stack) = 1
       THEN pc' = "done" /\ ret' = frame.patterns
       ELSE UNCHANGED <<pc, ret>>
    /\ UNCHANGED <<registry, descriptions, unified, op, args>>

NextProject ==
    \/ CallProject
    \/ ExtendProject
    \/ ReturnProject

\* The call runs to its end: nothing else is scheduled and it does not wait.
SpecProject == InitProject /\ [][NextProject]_vars /\ WF_vars(NextProject)

\* ------------------------------------------------------------ one unify_motifs call

\* Raw motifs as the miners format them; under the modelled digest some of
\* them share a hash and some do not.
RawMotifs == {"T_A_B", "T_B_A", "CYCLE_A_B", "PS_A_B"}

\* The ways to hand the motifs of flat to unify_motifs as three lists.
Cuts(flat) ==
    {<<SubSeq(flat, 1, i), SubSeq(flat, i + 1, j), SubSeq(flat, j + 1, Len(flat))>> :
        <<i, j>> \in {c \in (0..Len(flat)) \X (0..Len(flat)) : c[1] <= c[2]}}

InitUnify ==
    /\ Idle
    /\ args \in {[motif_lists |-> ml, max_total |-> mt, register |-> rg] :
                    ml \in UNION {Cuts(flat) : flat \in SeqsUpTo(RawMotifs, MaxMotifs)},
                    mt \in 0..MaxParam,
                    rg \in BOOLEAN}

CallUnifyMotifs ==
    /\ pc = "ready"
    /\ LET out == unify_motifs(args.motif_lists, args.max_total, args.register, registry)
       IN  /\ Returned("unify_motifs", args, out.ret)
           /\ registry' = out.registry
    /\ unified' = IF args.register
                   THEN unified \cup {Flatten(args.motif_lists)[i] :
                                          i \in 1..Len(Flatten(args.motif_lists))}
                   ELSE unified
    /\ UNCHANGED <<descriptions, frame>>

NextUnify == CallUnifyMotifs

SpecUnify == InitUnify /\ [][NextUnify]_vars

\* ------------------------------------------------------------ two unify_motifs calls at once

\* Most raw motifs in each of two concurrent calls.
MaxConcMotifs == 2

\* Two unify_motifs(register=True) calls on the shared registry: for each call
\* frame holds the position of its loop over motifs and its locals hashed and
\* seen_hashes, pc where it stands, ret what it returned.
InitConcurrent ==
    /\ registry = EmptyDict
    /\ descriptions = EmptyDict
    /\ unified = {}
    /\ op = "unify_motifs"
    /\ args \in [1..2 -> [motifs : SeqsUpTo({"T_A_B", "T_B_A", "PS_A_B"}, MaxConcMotifs),
                          max_total : {1, DefaultMaxTotal}]]
    /\ ret = [call \in 1..2 |-> NoValue]
    /\ pc = [call \in 1..2 |-> "loop"]
    /\ frame = [call \in 1..2 |-> [i |-> 1, hashed |-> <<>>, seen_hashes |-> {}]]

\* One pass of `for m in motifs` in one of the calls: with one registry write
\* when the hash is new to the call.
UnifyStep(call) ==
    /\ pc[call] = "loop"
    /\ frame[call].i <= Len(args[call].motifs)
    /\ LET m == args[call].motifs[frame[call].i]
           end == UnifyLoop(<<m>>, frame[call].hashed, frame[call].seen_hashes,
                            registry, TRUE)
       IN  /\ frame' = [frame EXCEPT ![call] =
                           [i |-> @.i + 1, hashed |-> end.hashed,
                            seen_hashes |-> @.seen_hashes \cup {MotifHash(m)}]]
           /\ registry' = end.registry
           /\ unified' = unified \cup {m}
    /\ UNCHANGED <<descriptions, op, args, ret, pc>>

\* return hashed[:max_total]
UnifyReturn(call) ==
    /\ pc[call] = "loop"
    /\ frame[call].i > Len(args[call].motifs)
    /\ ret' = [ret EXCEPT ![call] = SliceTo(frame[call].hashed, args[call].max_total)]
    /\ pc' = [pc EXCEPT ![call] = "done"]
    /\ UNCHANGED <<registry, descriptions, unified, op, args, frame>>

NextConcurrent ==
    \E call \in 1..2 :
        \/ UnifyStep(call)
        \/ UnifyReturn(call)

SpecConcurrent == InitConcurrent /\ [][NextConcurrent]_vars

\* ------------------------------------------------------------ the registry over many calls

\* Most raw motifs in one unify_motifs call of a registry run.
MaxRegMotifs == 1

\* The raw motifs unified in a registry run: two of them share a hash.
RegMotifs == {"T_A_B", "PS_A_B", "HOT_A_5"}
\* The motif strings asked about: every hash a run can register, and a raw one.
QueryMotifs == {HashedMotif(m) : m \in RegMotifs} \cup {"T_A_B"}

\* frame is the history of a registry run: for each motif string, the first
\* description and the first category returned for it since the last clear().
NoAnswers == [described |-> EmptyDict, categorized |-> EmptyDict]

\* The history after the call on motif answered r, under the key field.
FirstAnswer(history, motif, r) ==
    IF motif \in DOMAIN history THEN history ELSE DictSet(history, motif, r)

InitRegistry ==
    /\ registry = EmptyDict
    /\ descriptions = EmptyDict
    /\ unified = {}
    /\ op = "none"
    /\ args = NoValue
    /\ ret = NoValue
    /\ pc = "ready"
    /\ frame = NoAnswers

\* A call that returns r and leaves the registry reg and the cache descs.
Called(name, a, r, reg, descs) ==
    /\ op' = name
    /\ args' = a
    /\ ret' = r
    /\ registry' = reg
    /\ descriptions' = descs
    /\ UNCHANGED pc

\* unify_motifs on one list, registering (as motifs_from_sequence calls it),
\* or on one motif without registering.
UnifyMotifs ==
    \E register \in BOOLEAN, max_total \in {DefaultMaxTotal} :
    \E motifs \in IF register THEN SeqsUpTo(RegMotifs, MaxRegMotifs) ELSE {<<"PS_A_B">>} :
        LET out == unify_motifs(<<motifs>>, max_total, register, registry)
        IN  /\ Called("unify_motifs",
                      [motif_lists |-> <<motifs>>, max_total |-> max_total,
                       register |-> register],
                      out.ret, out.registry, descriptions)
            /\ unified' = IF register
                           THEN unified \cup {motifs[i] : i \in 1..Len(motifs)}
                           ELSE unified
            /\ UNCHANGED frame

\* motifs_from_sequence on a sequence too short to mine and on one with a
\* single transition.
MotifsFromSequence ==
    \E seq \in {<<"A">>, <<"A", "B">>} :
        LET out == motifs_from_sequence(seq, DefaultMaxTotal, registry)
        IN  /\ Called("motifs_from_sequence", [seq |-> seq],
                      out.ret, out.registry, descriptions)
            /\ unified' = unified \cup {MinedRaw(seq)[i] : i \in 1..Len(MinedRaw(seq))}
            /\ UNCHANGED frame

\* A miner called between the registry calls: none of them names the registry.
CallMiner ==
    \E seq \in {<<"A", "B", "A">>} :
    \E call \in {<<"transition_motifs", transition_motifs(seq, DefaultMaxCount)>>,
                 <<"structural_motifs", structural_motifs(seq)>>,
                 <<"prefixspan", prefixspan(seq, 1, DefaultMaxLen)>>,
                 <<"prefixspan_motifs", prefixspan_motifs(seq, 1, DefaultMaxLen)>>,
                 <<"sequitur_rules", sequitur_rules(seq)>>} :
        /\ Called(call[1], [seq |-> seq], call[2], registry, descriptions)
        /\ UNCHANGED <<unified, frame>>

\* canonicalize_event called between the registry calls.
CanonicalizeEvent ==
    \E event \in {[BlankEvent EXCEPT !.type = PyStr("file.create")]} :
        /\ Called("canonicalize_event", [event |-> event],
                  canonicalize_event(event), registry, descriptions)
        /\ UNCHANGED <<unified, frame>>

GetOriginal ==
    \E hashed \in QueryMotifs :
        /\ Called("get_original", [hashed |-> hashed],
                  get_original(registry, hashed), registry, descriptions)
        /\ UNCHANGED <<unified, frame>>

Describe ==
    \E motif \in QueryMotifs :
        LET out == describe(registry, descriptions, motif)
        IN  /\ Called("describe", [motif |-> motif], out.ret, registry, out.descriptions)
            /\ frame' = [frame EXCEPT !.described = FirstAnswer(@, motif, out.ret)]
            /\ UNCHANGED unified

GetCategory ==
    \E motif \in QueryMotifs :
        /\ Called("get_category", [motif |-> motif],
                  get_category(registry, motif), registry, descriptions)
        /\ frame' = [frame EXCEPT !.categorized =
                                      FirstAnswer(@, motif, get_category(registry, motif))]
        /\ UNCHANGED unified

\* MotifRegistry.clear
Clear ==
    /\ Called("clear", NoValue, NoValue, EmptyDict, EmptyDict)
    /\ unified' = {}
    /\ frame' = NoAnswers

NextRegistry ==
    \/ UnifyMotifs
    \/ MotifsFromSequence
    \/ CallMiner
    \/ CanonicalizeEvent
    \/ GetOriginal
    \/ Describe
    \/ GetCategory
    \/ Clear

SpecRegistry == InitRegistry /\ [][NextRegistry]_vars

\* ------------------------------------------------------------ one canonicalize_event call

\* An event that is not a dict: None, a list, a str.
NonDictEvent(kind) == [BlankEvent EXCEPT !.k = kind]

TypeValues == {PyNone, PyStr(""), PyStr(" "), PyStr("file.create"), PyStr("FILE_modify"),
               PyStr(".create"), PyStr("create"), PyStr("file/x"), PyStr("git/push"), PyInt("0"), PyInt("5")}
OperationValues == {PyNone, PyStr(""), PyStr("edit")}
VerbValues == {PyNone, PyStr(""), PyStr("Run-Test")}

CanonEvents ==
    {[BlankEvent EXCEPT !.type = t, !.operation = o, !.verb = v] :
        t \in TypeValues, o \in OperationValues, v \in VerbValues}
    \cup {NonDictEvent(kind) : kind \in {"none", "list", "str"}}

InitCanon ==
    /\ Idle
    /\ args \in {[event |-> e] : e \in CanonEvents}

CallCanonicalizeEvent ==
    /\ pc = "ready"
    /\ Returned("canonicalize_event", args, canonicalize_event(args.event))
    /\ UNCHANGED <<registry, descriptions, unified, frame>>

\* The same event is canonicalized a second time; frame keeps the first symbol.
RepeatCanonicalizeEvent ==
    /\ pc = "done"
    /\ op = "canonicalize_event"
    /\ frame' = [first |-> ret]
    /\ ret' = canonicalize_event(args.event)
    /\ pc' = "repeated"
    /\ UNCHANGED <<op, args, registry, descriptions, unified>>

NextCanon ==
    \/ CallCanonicalizeEvent
    \/ RepeatCanonicalizeEvent

SpecCanon == InitCanon /\ [][NextCanon]_vars

\* ------------------------------------------------------------ event_sequence on one trace, then mining

PromptEvent == [BlankEvent EXCEPT !.type = PyStr("prompt")]

\* The events a trace is drawn from.
EventPool == {
    [BlankEvent EXCEPT !.type = PyStr("file.create")],
    [BlankEvent EXCEPT !.type = PyStr("file.modify")],
    NonDictEvent("none"),
    [PromptEvent EXCEPT !.text = PyStr("fix the review")],
    [PromptEvent EXCEPT !.type = PyStr("PROMPT"),
                        !.details = [NoDetails EXCEPT !.k = "dict",
                                                      !.message = PyStr("add")]],
    [PromptEvent EXCEPT !.details = [NoDetails EXCEPT !.k = "str", !.json = "invalid"]],
    [PromptEvent EXCEPT !.details = [NoDetails EXCEPT !.k = "str", !.json = "other"]] }

\* An entry of the top-level prompts list. A str is iterated by character,
\* and a character is not a dict.
BlankPrompt == [k |-> "dict", text |-> PyNone, content |-> PyNone, prompt |-> PyNone]
NoPrompts == [k |-> "absent", items |-> <<>>]

PromptsPool == {
    NoPrompts,
    [k |-> "none", items |-> <<>>],
    [k |-> "int", items |-> <<>>],
    [k |-> "str", items |-> <<[BlankPrompt EXCEPT !.k = "str"],
                              [BlankPrompt EXCEPT !.k = "str"]>>],
    [k |-> "list", items |-> <<[BlankPrompt EXCEPT !.content = PyStr("run the tests")],
                               [BlankPrompt EXCEPT !.k = "none"],
                               [BlankPrompt EXCEPT !.prompt = PyInt("5")]>>] }

\* The traces: every list of events with no prompts or a list of prompts, the
\* lists of at most one event with every other prompts value, and the traces
\* whose events are not a list or that are not a dict.
Traces ==
    {[k |-> "dict", events |-> [k |-> "list", items |-> es], prompts |-> ps] :
        es \in SeqsUpTo(EventPool, MaxEvents),
        ps \in {q \in PromptsPool : q.k \in {"absent", "list"}}}
    \cup {[k |-> "dict", events |-> [k |-> "list", items |-> es], prompts |-> ps] :
            es \in SeqsUpTo(EventPool, 1),
            ps \in {q \in PromptsPool : q.k \notin {"absent", "list"}}}
    \cup {[k |-> "dict", events |-> [k |-> ek, items |-> <<>>], prompts |-> NoPrompts] :
            ek \in {"absent", "none", "str"}}
    \cup {[k |-> tk, events |-> [k |-> "absent", items |-> <<>>], prompts |-> NoPrompts] :
            tk \in {"none", "list"}}

InitTrace ==
    /\ Idle
    /\ args \in {[trace |-> t, include_prompts |-> ip, include_llm_intents |-> il] :
                    t \in Traces, ip \in BOOLEAN, il \in BOOLEAN}

\* trace.get('events', []) is a list
EventsIsList(trace) == trace.events.k \in {"list", "absent"}

\* include_prompts and 'prompts' in trace
ReadsPrompts == args.include_prompts /\ args.trace.prompts.k # "absent"

\* event_sequence returns r
ReturnSequence(r) ==
    /\ op' = "event_sequence"
    /\ ret' = r
    /\ pc' = "done"
    /\ UNCHANGED <<args, registry, descriptions, unified>>

\* event_sequence raises
RaiseFrom(exception) ==
    /\ ret' = Raised(exception)
    /\ pc' = "raised"
    /\ UNCHANGED <<op, args, frame, registry, descriptions, unified>>

\* The trace is not a dict, or its events are not a list: return [].
RejectTrace ==
    /\ pc = "ready"
    /\ args.trace.k # "dict" \/ ~EventsIsList(args.trace)
    /\ ReturnSequence(<<>>)
    /\ frame' = [i |-> 1, sequence |-> <<>>]

BeginEvents ==
    /\ pc = "ready"
    /\ args.trace.k = "dict"
    /\ EventsIsList(args.trace)
    /\ op' = "event_sequence"
    /\ pc' = "events"
    /\ frame' = [i |-> 1, sequence |-> <<>>]
    /\ UNCHANGED <<args, ret, registry, descriptions, unified>>

\* The event the loop is at.
ThisEvent == args.trace.events.items[frame.i]
AtEvent == pc = "events" /\ frame.i <= Len(args.trace.events.items)

\* The intent markers of an event: those of its prompt text, when
\* include_prompts and the text is not empty.
EventMarkers(event, include_prompts, include_llm) ==
    LET prompt_text == extract_prompt_from_event(event)
    IN  IF include_prompts /\ prompt_text.k = "str" /\ prompt_text.s # ""
        THEN intent_tokens_for_prompt(prompt_text.s, include_llm)
        ELSE <<>>

\* Mutant of EventStep: the event's symbol goes before its markers.
EventStepSymbolFirst(sequence, event, include_prompts, include_llm) ==
    sequence \o <<canonicalize_event(event)>>
             \o EventMarkers(event, include_prompts, include_llm)

\* One pass of the loop over a dict event: extend by the markers, append the symbol.
EventStep(sequence, event, include_prompts, include_llm) ==
    sequence \o EventMarkers(event, include_prompts, include_llm)
             \o <<canonicalize_event(event)>>

SkipEvent ==
    /\ AtEvent
    /\ ThisEvent.k # "dict"
    /\ frame' = [frame EXCEPT !.i = @ + 1]
    /\ UNCHANGED <<op, args, ret, pc, registry, descriptions, unified>>

AppendEvent ==
    /\ AtEvent
    /\ ThisEvent.k = "dict"
    /\ ~(args.include_prompts /\ extract_prompt_from_event(ThisEvent).k = "raise")
    /\ frame' = [i |-> frame.i + 1,
                 sequence |-> EventStep(frame.sequence, ThisEvent, args.include_prompts,
                                        args.include_llm_intents)]
    /\ UNCHANGED <<op, args, ret, pc, registry, descriptions, unified>>

\* extract_prompt_from_event raises, and nothing in event_sequence catches it.
RaiseInEvent ==
    /\ AtEvent
    /\ ThisEvent.k = "dict"
    /\ args.include_prompts
    /\ extract_prompt_from_event(ThisEvent).k = "raise"
    /\ RaiseFrom(extract_prompt_from_event(ThisEvent).s)

BeginPrompts ==
    /\ pc = "events"
    /\ frame.i > Len(args.trace.events.items)
    /\ ReadsPrompts
    /\ args.trace.prompts.k \in {"list", "str"}
    /\ pc' = "prompts"
    /\ frame' = [frame EXCEPT !.i = 1]
    /\ UNCHANGED <<op, args, ret, registry, descriptions, unified>>

\* for prompt_data in trace.get('prompts', []): the value is not iterable.
RaiseInPrompts ==
    /\ pc = "events"
    /\ frame.i > Len(args.trace.events.items)
    /\ ReadsPrompts
    /\ args.trace.prompts.k \notin {"list", "str"}
    /\ RaiseFrom("TypeError")

\* The intent markers of one entry of the top-level prompts.
PromptMarkers(prompt_data, include_llm) ==
    IF prompt_data.k # "dict" THEN <<>>
    ELSE LET prompt_text == PyOr(PyOr(prompt_data.text, prompt_data.content),
                                 prompt_data.prompt)
         IN  IF Truthy(prompt_text)
             THEN intent_tokens_for_prompt(PyToStr(prompt_text), include_llm)
             ELSE <<>>

PromptStep ==
    /\ pc = "prompts"
    /\ frame.i <= Len(args.trace.prompts.items)
    /\ frame' = [i |-> frame.i + 1,
                 sequence |-> frame.sequence
                              \o PromptMarkers(args.trace.prompts.items[frame.i],
                                               args.include_llm_intents)]
    /\ UNCHANGED <<op, args, ret, pc, registry, descriptions, unified>>

EndEvents ==
    /\ pc = "events"
    /\ frame.i > Len(args.trace.events.items)
    /\ ~ReadsPrompts
    /\ ReturnSequence(frame.sequence)
    /\ UNCHANGED frame

EndPrompts ==
    /\ pc = "prompts"
    /\ frame.i > Len(args.trace.prompts.items)
    /\ ReturnSequence(frame.sequence)
    /\ UNCHANGED frame

\* motifs_from_sequence on the sequence event_sequence returned.
MineSequence ==
    /\ pc = "done"
    /\ op = "event_sequence"
    /\ LET out == motifs_from_sequence(ret, DefaultMaxTotal, registry)
       IN  /\ ret' = out.ret
           /\ registry' = out.registry
    /\ op' = "motifs_from_sequence"
    /\ pc' = "mined"
    /\ unified' = unified \cup {MinedRaw(ret)[i] : i \in 1..Len(MinedRaw(ret))}
    /\ UNCHANGED <<args, frame, descriptions>>

NextTrace ==
    \/ RejectTrace
    \/ BeginEvents
    \/ SkipEvent
    \/ AppendEvent
    \/ RaiseInEvent
    \/ BeginPrompts
    \/ RaiseInPrompts
    \/ PromptStep
    \/ EndEvents
    \/ EndPrompts
    \/ MineSequence

SpecTrace == InitTrace /\ [][NextTrace]_vars

\* ------------------------------------------------------------ claims: the miners (SpecMine)

\* C1: prefixspan_motifs applied to S = [A,B,A,B,C] with min_support=2 and
\* max_len=4 returns a list that contains the motif PS_A_B.
C1_PrefixSpanFindsAB ==
    (/\ op = "prefixspan_motifs"
     /\ args.seq = <<"A", "B", "A", "B", "C">>
     /\ args.min_support = 2
     /\ args.max_len = 4)
    => InList("PS_A_B", ret)

\* C10: for |S| = n >= 2 and max_count >= 0, transition_motifs(S, max_count)
\* returns exactly min(n-1, max_count) motifs, the i-th (0-based) being
\* T_<S[i]>_<S[i+1]>.
C10_TransitionCompleteness ==
    (op = "transition_motifs" /\ Len(args.seq) >= 2 /\ args.max_count >= 0)
    => /\ Len(ret) = Min(Len(args.seq) - 1, args.max_count)
       /\ \A i \in 1..Len(ret) :
             ret[i] = "T_" \o args.seq[i] \o "_" \o args.seq[i + 1]

\* A call where the cap cuts the pairs (4 adjacent pairs, 2 returned) ...
C10_Witness ==
    /\ op = "transition_motifs"
    /\ args.seq = <<"A", "B", "A", "B", "C">>
    /\ args.max_count = 2
    /\ ret = <<"T_A_B", "T_B_A">>

\* C11: for every sequence S with |S| < 2 (empty or one symbol),
\* transition_motifs, structural_motifs, prefixspan_motifs, sequitur_rules and
\* motifs_from_sequence each return the empty list, and motifs_from_sequence
\* leaves the registry unchanged.
C11_ShortSequences ==
    [][(/\ Len(args'.seq) < 2
        /\ op' \in {"transition_motifs", "structural_motifs", "prefixspan_motifs",
                    "sequitur_rules", "motifs_from_sequence"})
       => /\ ret' = <<>>
          /\ op' = "motifs_from_sequence" => registry' = registry]_vars

\* motifs_from_sequence has returned on a one-symbol sequence, called with a
\* registry that an earlier call filled.
C11_Witness ==
    /\ op = "motifs_from_sequence"
    /\ Len(args.seq) = 1
    /\ ret = <<>>
    /\ registry # EmptyDict

\* The adjacent n-grams of a sequence, and how often one occurs in it
\* (overlapping occurrences counted).
NGrams(seq, n) == {SubSeq(seq, i, i + n - 1) : i \in 1..(Len(seq) - n + 1)}
Occurrences(seq, gram) ==
    Cardinality({i \in 1..(Len(seq) - Len(gram) + 1) :
                    SubSeq(seq, i, i + Len(gram) - 1) = gram})
RepeatedGrams(seq) ==
    {g \in NGrams(seq, 2) \cup NGrams(seq, 3) : Occurrences(seq, g) >= 2}
SQ(gram) ==
    IF Len(gram) = 2 THEN "SQ_" \o gram[1] \o "_" \o gram[2]
    ELSE "SQ_" \o gram[1] \o "_" \o gram[2] \o "_" \o gram[3]

\* C12: sequitur_rules(S) for |S| >= 2 contains SQ_<a>_<b> exactly once for
\* each distinct adjacent bigram occurring at least 2 times in S (overlapping
\* occurrences counted) and, when |S| >= 3, SQ_<a>_<b>_<c> exactly once for
\* each distinct adjacent trigram occurring at least 2 times; it contains
\* nothing else, so [X,Y,X,Y] gives exactly one SQ_X_Y and no other motif.
C12_SequiturRules ==
    (pc = "done" /\ op = "sequitur_rules" /\ Len(args.seq) >= 2)
    => /\ \A g \in RepeatedGrams(args.seq) :
              Cardinality({j \in 1..Len(ret) : ret[j] = SQ(g)}) = 1
       /\ \A j \in 1..Len(ret) : \E g \in RepeatedGrams(args.seq) : ret[j] = SQ(g)
       /\ args.seq = <<"A", "B", "A", "B">> => ret = <<"SQ_A_B">>

\* sequitur_rules has returned a repeated bigram and a repeated trigram.
C12_Witness ==
    /\ pc = "done"
    /\ op = "sequitur_rules"
    /\ args.seq = <<"A", "B", "A", "B", "A">>
    /\ ret = <<"SQ_A_B", "SQ_B_A", "SQ_A_B_A">>

\* ------------------------------------------------------------ claims: structural_motifs (SpecStructural)

\* structural_motifs has returned on a sequence of at least two symbols.
StructuralReturned ==
    pc = "done" /\ op = "structural_motifs" /\ Len(args.seq) >= 2

SymbolsOf(seq) == {seq[i] : i \in 1..Len(seq)}
TimesIn(seq, sym) == Cardinality({i \in 1..Len(seq) : seq[i] = sym})
\* How many elements of a list are m, and how many start with p.
HowMany(motifs, m) == Cardinality({j \in 1..Len(motifs) : motifs[j] = m})
HowManyWith(motifs, p) == Cardinality({j \in 1..Len(motifs) : StartsWith(motifs[j], p)})

\* C13: structural_motifs(S) for |S| >= 2 contains HOT_<sym>_<k> exactly once
\* for each distinct symbol sym whose number of occurrences k in S is at least
\* 5, with k the exact count, and no HOT_ motif for a symbol occurring fewer
\* than 5 times (5 x A + 2 x B gives HOT_A_5 and no HOT_B_*).
C13_Hotspots ==
    StructuralReturned
    => /\ \A sym \in SymbolsOf(args.seq) :
              LET k == TimesIn(args.seq, sym)
                  hot == "HOT_" \o sym \o "_" \o ToString(k)
              IN  /\ HowMany(ret, hot) = (IF k >= 5 THEN 1 ELSE 0)
                  /\ k < 5 => HowManyWith(ret, "HOT_" \o sym \o "_") = 0
       /\ HowManyWith(ret, "HOT_")
              = Cardinality({sym \in SymbolsOf(args.seq) : TimesIn(args.seq, sym) >= 5})

\* structural_motifs has returned on 5 x A + 2 x B.
C13_Witness ==
    /\ StructuralReturned
    /\ args.seq = <<"A", "A", "A", "A", "A", "B", "B">>
    /\ ret = <<"HOT_A_5">>

\* The indices (1-based) at which a cycle starts.
CycleIndices(seq) ==
    {i \in 1..(Len(seq) - 2) : seq[i] = seq[i + 2] /\ seq[i] # seq[i + 1]}

\* C14: structural_motifs(S) for |S| >= 2 emits one CYCLE_<S[i]>_<S[i+1]> for
\* every index i with S[i] = S[i+2] and S[i] # S[i+1], in index order and
\* without deduplication, so the number of CYCLE_ motifs is the number of such
\* indices ([A,B,A] gives CYCLE_A_B, [A,A,A] gives none).
C14_Cycles ==
    StructuralReturned
    => LET cycles == SelectSeq(ret, LAMBDA m : StartsWith(m, "CYCLE_"))
           at == CycleIndices(args.seq)
       IN  /\ Len(cycles) = Cardinality(at)
           /\ \A i \in at :
                  cycles[Cardinality({i2 \in at : i2 <= i})]
                     = "CYCLE_" \o args.seq[i] \o "_" \o args.seq[i + 1]

\* structural_motifs has returned the same cycle twice, around another.
C14_Witness ==
    /\ StructuralReturned
    /\ args.seq = <<"A", "B", "A", "B", "A">>
    /\ ret = <<"CYCLE_A_B", "CYCLE_B_A", "CYCLE_A_B">>

\* C15: structural_motifs(S) for |S| >= 2 contains HIGH_SWITCHING exactly
\* once when the number of distinct symbols of S is strictly greater than
\* 0.7 * |S| (10 * distinct > 7 * |S|) and not otherwise; when present it is
\* the last element, after all CYCLE_ and HOT_ motifs.
C15_HighSwitching ==
    StructuralReturned
    => LET diverse == 10 * Cardinality(SymbolsOf(args.seq)) > 7 * Len(args.seq)
       IN  /\ HowMany(ret, "HIGH_SWITCHING") = (IF diverse THEN 1 ELSE 0)
           /\ diverse => ret[Len(ret)] = "HIGH_SWITCHING"

\* structural_motifs has returned HIGH_SWITCHING after a cycle and a hotspot.
C15_Witness ==
    /\ StructuralReturned
    /\ ret = <<"CYCLE_A_B", "HOT_A_5", "HIGH_SWITCHING">>

\* ------------------------------------------------------------ claims: one unify_motifs call (SpecUnify)

\* The hashes of the raw motifs of a call, D of them.
DistinctHashes(motifs) == {MotifHash(motifs[i]) : i \in 1..Len(motifs)}

\* M_<10 hex chars>
IsHashedForm(h) ==
    /\ Len(h) = 2 + HashLen
    /\ StartsWith(h, "M_")
    /\ \A i \in 3..Len(h) : IndexOf(HexChars, CharAt(h, i)) > 0

\* C5: for all input lists and every max_total >= 0, unify_motifs returns
\* exactly min(max_total, D) elements, D the number of distinct 10-hex hashes
\* of the input raw motifs; they are pairwise distinct and each has the form
\* M_<10 hex chars>.
C5_UnifyBoundAndUniqueness ==
    (op = "unify_motifs" /\ args.max_total >= 0)
    => /\ Len(ret) = Min(args.max_total,
                         Cardinality(DistinctHashes(Flatten(args.motif_lists))))
       /\ \A i, j \in 1..Len(ret) : i # j => ret[i] # ret[j]
       /\ \A i \in 1..Len(ret) : IsHashedForm(ret[i])

\* A call whose motifs have 3 distinct hashes, once repeated and once shared
\* by two raw motifs, cut to 2 by max_total.
C5_Witness ==
    /\ op = "unify_motifs"
    /\ Flatten(args.motif_lists) = <<"T_A_B", "T_B_A", "CYCLE_A_B", "PS_A_B">>
    /\ MotifHash("T_A_B") = MotifHash("T_B_A")
    /\ Cardinality(DistinctHashes(Flatten(args.motif_lists))) = 3
    /\ args.max_total = 2
    /\ Len(ret) = 2

\* C6: the output of unify_motifs is the hashes of the first max_total
\* distinct-hash raw motifs, in the order of their first occurrence in the
\* concatenation of the input lists; a raw motif whose hash was already seen
\* adds no element and takes nothing from the budget.
C6_UnifyPreservesOrder ==
    (op = "unify_motifs" /\ args.max_total >= 0)
    => LET motifs == Flatten(args.motif_lists)
           \* the positions whose hash occurs at no earlier position
           first == {i \in 1..Len(motifs) :
                        \A j \in 1..(i - 1) : MotifHash(motifs[j]) # MotifHash(motifs[i])}
       IN  /\ Len(ret) = Min(args.max_total, Cardinality(first))
           /\ \A k \in 1..Len(ret) :
                 \E i \in first :
                    /\ Cardinality({j \in first : j < i}) = k - 1
                    /\ ret[k] = "M_" \o MotifHash(motifs[i])

\* A call of two lists where a repeated hash sits between two new ones and
\* the budget of 2 is still filled by the later new one.
C6_Witness ==
    /\ op = "unify_motifs"
    /\ args.motif_lists = <<<<"T_A_B", "T_B_A">>, <<"T_A_B", "PS_A_B">>, <<>>>>
    /\ args.max_total = 2
    /\ MotifHash("T_A_B") = MotifHash("T_B_A")
    /\ ret = <<HashedMotif("T_A_B"), HashedMotif("PS_A_B")>>

\* C19: unify_motifs stops accepting at max_total: a call with max_total = k
\* and register=True writes a registry entry only for raw motifs whose hash is
\* among the k hashes it returns; a raw motif that comes after the k-th
\* distinct hash is neither returned nor registered.
C19_StopsAccepting ==
    (pc = "done" /\ op = "unify_motifs" /\ args.register)
    => DOMAIN registry \subseteq {ret[i] : i \in 1..Len(ret)}

\* ------------------------------------------------------------ claims: the registry (SpecRegistry)

\* C3: registry entries are write-once: with no clear() in between, once
\* get_original(h) returns a raw motif r it returns r in every later state.
C3_WriteOnce ==
    [][op' # "clear" =>
          \A h \in DOMAIN registry :
              get_original(registry', h) = get_original(registry, h)]_vars

\* C4: when unify_motifs([r], register=True) returns [h], and no different raw
\* motif with the same hash was unified before, then get_original(h) = r and
\* describe(h) is the canned phrase for r, not the pseudo-label of an
\* unregistered hash.
C4_RoundTrip ==
    (/\ op = "unify_motifs"
     /\ args.register
     /\ Len(args.motif_lists[1]) = 1
     /\ Len(ret) = 1
     /\ \A r2 \in unified : MotifHash(r2) = MotifHash(args.motif_lists[1][1])
                               => r2 = args.motif_lists[1][1])
    => LET r == args.motif_lists[1][1]
           h == ret[1]
       IN  /\ get_original(registry, h) = PyStr(r)
           /\ describe(registry, descriptions, h).ret = describe_original_pattern(r)
           /\ describe(registry, descriptions, h).ret # describe_pattern_by_type(h)


\* The pseudo-label of a hash M_x: the template numbered by the integer value
\* of the 4 hex characters x[0..3] mod 8, then " #" and those characters.
PseudoLabel(motif) ==
    LET x == SubSeq(motif, 3, 6)
        value == 4096 * HexValue(CharAt(x, 1)) + 256 * HexValue(CharAt(x, 2))
                 + 16 * HexValue(CharAt(x, 3)) + HexValue(CharAt(x, 4))
    IN  PatternTypes[(value % 8) + 1] \o " #" \o x

\* C17: describe is memoized per motif string: every describe(m) call between
\* two clear() calls returns the string the first of them returned, whatever
\* unify_motifs calls register in between; and a hash M_x that is not
\* registered always gets the same pseudo-label, the template selected by the
\* integer value of x[0..3] mod 8 out of 8.
C17_DescribeMemoized ==
    op = "describe"
    => /\ ret = frame.described[args.motif]
       /\ (StartsWith(args.motif, "M_") /\ args.motif \notin DOMAIN registry)
              => ret = PseudoLabel(args.motif)

\* describe answers for a hash with the pseudo-label of its first call,
\* although the hash has been registered since.
C17_Witness ==
    /\ op = "describe"
    /\ args.motif \in DOMAIN registry
    /\ ret = PseudoLabel(args.motif)
    /\ ret # describe_original_pattern(registry[args.motif])

\* C18: get_category is memoized per motif string: every get_category(m) call
\* before a clear() returns the category the first call returned, also when m
\* is a hash that unify_motifs registers between the calls.
C18_CategoryMemoized ==
    op = "get_category" => ret = frame.categorized[args.motif]

\* ------------------------------------------------------------ claims: canonicalize_event (SpecCanon)

\* C7: canonicalize_event returns exactly the sentinel EV_OTHER for every
\* input that is not a record (None, a list, a str) and for every record that
\* has no type, no operation and no verb value, the empty record {} among them.
C7_Sentinel ==
    (/\ pc = "done"
     /\ op = "canonicalize_event"
     /\ \/ args.event.k # "dict"
        \/ /\ args.event.type = PyNone
           /\ args.event.operation = PyNone
           /\ args.event.verb = PyNone)
    => ret = "EV_OTHER"

\* The declared type of a record, and the first delimiter-separated token of
\* a declared type after lowercasing.
DeclaredType(event) == PyOr(PyOr(event.type, event.operation), event.verb)
LoweredHead(event) ==
    LET lowered == StrLower(PyToStr(DeclaredType(event)))
    IN  SubSeq(lowered, 1, FirstWhere(lowered, 1, TRUE) - 1)
HasDeclaredType(event) == event.k = "dict" /\ DeclaredType(event) # PyNone

\* C16: canonicalize_event is deterministic and depends only on the lowercased
\* head: two records whose declared types have the same first
\* delimiter-separated token after lowercasing (file.create, FILE_modify,
\* file/x) get the same symbol, EV_ and 6 hex characters, and canonicalizing
\* the same event twice gives the same symbol.
C16_SameHeadSameSymbol ==
    (/\ pc \in {"done", "repeated"}
     /\ op = "canonicalize_event"
     /\ HasDeclaredType(args.event))
    => /\ \A other \in CanonEvents :
              (HasDeclaredType(other) /\ LoweredHead(other) = LoweredHead(args.event))
              => canonicalize_event(other) = ret
       /\ Strip(LoweredHead(args.event)) # ""
              => /\ Len(ret) = 9
                 /\ SubSeq(ret, 1, 3) = "EV_"
                 /\ \A i \in 4..9 : HexValue(CharAt(ret, i)) >= 0
       /\ pc = "repeated" => ret = frame.first

\* FILE_modify has been canonicalized twice, to the symbol of file.create and
\* of file/x.
C16_Witness ==
    /\ pc = "repeated"
    /\ args.event.type = PyStr("FILE_modify")
    /\ ret = canonicalize_event([BlankEvent EXCEPT !.type = PyStr("file.create")])
    /\ ret = canonicalize_event([BlankEvent EXCEPT !.type = PyStr("file/x")])
    /\ ret # "EV_OTHER"

\* The first non-empty token of a declared type after lowercasing, "" when
\* every token is empty.
FirstNonEmptyToken(event) ==
    LET tokens == SelectSeq(ReSplit(StrLower(PyToStr(DeclaredType(event)))),
                            LAMBDA t : Strip(t) # "")
    IN  IF tokens = <<>> THEN "" ELSE Strip(tokens[1])

\* C20: canonicalize_event takes as head the first non-empty token of the
\* lowercased declared type split on the delimiters . _ / \ -, and returns
\* EV_OTHER only when no token is non-empty; a type that starts with a
\* delimiter (.create) gets the symbol of its first non-empty token alone.
C20_FirstNonEmptyToken ==
    (pc = "done" /\ op = "canonicalize_event" /\ HasDeclaredType(args.event))
    => /\ ret = "EV_OTHER" <=> FirstNonEmptyToken(args.event) = ""
       /\ FirstNonEmptyToken(args.event) # ""
              => ret = canonicalize_event(
                           [BlankEvent EXCEPT !.type = PyStr(FirstNonEmptyToken(args.event))])

\* ------------------------------------------------------------ claims: event_sequence and mining (SpecTrace)

\* C8: event_sequence returns a list and raises no exception, whatever the
\* trace: a trace that is not a record, events that are not a list, events
\* that are not records, top-level prompts that are None or not a list, prompt
\* events whose details are a string of invalid JSON or of JSON that is no record.
C8_NeverRaises == pc # "raised"

RECURSIVE ExpectedEvents(_, _, _)
\* For the events in stored order: nothing for one that is not a record, and
\* for a record its intent markers followed by its symbol.
ExpectedEvents(events, include_prompts, include_llm) ==
    IF events = <<>> THEN <<>>
    ELSE LET e == Head(events)
         IN  (IF e.k = "dict"
              THEN (IF include_prompts /\ Truthy(extract_prompt_from_event(e))
                    THEN intent_tokens_for_prompt(extract_prompt_from_event(e).s,
                                                  include_llm)
                    ELSE <<>>) \o <<canonicalize_event(e)>>
              ELSE <<>>)
             \o ExpectedEvents(Tail(events), include_prompts, include_llm)

RECURSIVE ExpectedPrompts(_, _)
\* The intent markers of each top-level prompt, in order.
ExpectedPrompts(prompts, include_llm) ==
    IF prompts = <<>> THEN <<>>
    ELSE PromptMarkers(Head(prompts), include_llm)
         \o ExpectedPrompts(Tail(prompts), include_llm)

\* The record events of a list, in stored order.
RecordEvents(events) == SelectSeq(events, LAMBDA e : e.k = "dict")

\* C9: the sequence event_sequence returns is, for the record events in stored
\* order, each event's intent markers (when include_prompts and the event
\* exposes prompt text) immediately followed by its own symbol, and after the
\* last event the intent markers of each top-level prompt; events that are not
\* records contribute nothing, and with include_prompts = False the output is
\* exactly one symbol per record event.
C9_OutputOrder ==
    (/\ pc = "done"
     /\ op = "event_sequence"
     /\ args.trace.k = "dict"
     /\ EventsIsList(args.trace))
    => LET events == args.trace.events.items
           records == RecordEvents(events)
       IN  /\ ret = ExpectedEvents(events, args.include_prompts,
                                   args.include_llm_intents)
                    \o (IF args.include_prompts
                        THEN ExpectedPrompts(args.trace.prompts.items,
                                             args.include_llm_intents)
                        ELSE <<>>)
           /\ ~args.include_prompts
              => /\ Len(ret) = Len(records)
                 /\ \A j \in 1..Len(records) : ret[j] = canonicalize_event(records[j])

\* A returned sequence where an event's markers precede its symbol, another
\* event's symbol follows, an event that is no record was skipped and the
\* markers of a top-level prompt end the sequence.
C9_Witness ==
    /\ pc = "done"
    /\ op = "event_sequence"
    /\ args.include_prompts
    /\ args.trace.prompts.k = "list"
    /\ Len(args.trace.events.items) = 3
    /\ args.trace.events.items[1].text = PyStr("fix the review")
    /\ args.trace.events.items[2].k = "none"
    /\ args.trace.events.items[3].type = PyStr("file.modify")
    /\ Len(ret) > 3
    /\ StartsWith(ret[1], "INTENT_")
    /\ StartsWith(ret[Len(ret)], "INTENT_")
    /\ \E j \in 1..Len(ret) : StartsWith(ret[j], "EV_")

\* The trace of the end-to-end example: three events of declared types
\* file.create, file.modify, file.create, and no prompts.
CreateModifyCreate ==
    /\ args.trace.k = "dict"
    /\ args.trace.prompts.k = "absent"
    /\ args.trace.events.items = <<[BlankEvent EXCEPT !.type = PyStr("file.create")],
                                   [BlankEvent EXCEPT !.type = PyStr("file.modify")],
                                   [BlankEvent EXCEPT !.type = PyStr("file.create")]>>

\* The raw forms registered for the hashed motifs of a list.
RegisteredForms(motifs) == {get_original(registry, motifs[i]).s : i \in 1..Len(motifs)}

\* C2 as stated: for the trace of types file.create, file.modify, file.create
\* with no prompts, event_sequence returns exactly 3 symbols with
\* symbol[0] = symbol[2], and motifs_from_sequence on them returns at least one
\* hashed motif whose raw form, as registered, starts with CYCLE_.
C2_CycleFound ==
    (pc = "mined" /\ CreateModifyCreate)
    => /\ Len(frame.sequence) = 3
       /\ frame.sequence[1] = frame.sequence[3]
       /\ \E raw \in RegisteredForms(ret) : StartsWith(raw, "CYCLE_")

\* C2 as amended: for that trace event_sequence returns exactly 3 symbols,
\* all three the same symbol s (the three types share the head "file"), and
\* motifs_from_sequence on them returns at least one hashed motif, the raw
\* form registered for each being T_s_s or SQ_s_s: none starts with CYCLE_.
C2_RepeatedSymbol ==
    (pc = "mined" /\ CreateModifyCreate)
    => /\ Len(frame.sequence) = 3
       /\ frame.sequence[1] = frame.sequence[3]
       /\ frame.sequence[1] = frame.sequence[2]
       /\ ret # <<>>
       /\ LET s == frame.sequence[1]
          IN  RegisteredForms(ret) \subseteq {"T_" \o s \o "_" \o s,
                                              "SQ_" \o s \o "_" \o s}

\* The example trace has been turned into a sequence and mined.
C2_Witness ==
    /\ pc = "mined"
    /\ CreateModifyCreate
    /\ Len(ret) >= 1
    /\ StartsWith(frame.sequence[1], "EV_")

\* ------------------------------------------------------------ the category table

\* The raw form of a motif string: the string itself or, for a registered
\* hash, its registered original.
RawForm(reg, m) == IF m \in DOMAIN reg THEN reg[m] ELSE m

\* The category a raw form has by its prefix alone.
CategoryByPrefix(raw) ==
    IF StartsWith(raw, "T_") THEN "Sequential Pattern"
    ELSE IF StartsWith(raw, "PS_") THEN "Frequent Sequence"
    ELSE IF StartsWith(raw, "SQ_") THEN "Compression Pattern"
    ELSE IF StartsWith(raw, "CYCLE_") THEN "Iterative Pattern"
    ELSE IF StartsWith(raw, "HOT_") THEN "Hotspot Pattern"
    ELSE IF StartsWith(raw, "HIGH_SWITCHING") THEN "Diversity Pattern"
    ELSE IF StartsWith(raw, "INTENT_") THEN "Intent Signal"
    ELSE IF StartsWith(raw, "M_") THEN "Mined Pattern"
    ELSE "Other Pattern"

\* C21: get_category(m) is the category of the prefix of m's raw form (m
\* itself or, for a registered hash, its registered original), so a registered
\* hash and its raw motif get the same category.
C21_CategoryByRawPrefix ==
    op = "get_category" =>
        /\ ret = CategoryByPrefix(RawForm(registry, args.motif))
        /\ args.motif \in DOMAIN registry =>
               ret = get_category(registry, registry[args.motif])

\* ------------------------------------------------------------ prefixspan: the patterns returned

\* The patterns of a list that have two symbols or more, in the list's order.
MultiItem(patterns) ==
    LET Multi(p) == Len(p) >= 2
    IN  SelectSeq(patterns, Multi)

\* C22: with max_len >= 1 every pattern prefixspan returns has between 1 and
\* max_len symbols and each of its proper non-empty prefixes is returned
\* earlier in the list; prefixspan_motifs emits one PS_ motif, the symbols
\* joined by _, for each returned pattern of two symbols or more, and none for
\* a pattern of one symbol.
C22_PatternsAndMotifs ==
    /\ (op = "prefixspan" /\ args.max_len >= 1) =>
           \A i \in 1..Len(ret) :
               /\ Len(ret[i]) \in 1..args.max_len
               /\ \A k \in 1..(Len(ret[i]) - 1) :
                      \E j \in 1..(i - 1) : ret[j] = SubSeq(ret[i], 1, k)
    /\ (op = "prefixspan_motifs" /\ args.max_len >= 1) =>
           LET multi == MultiItem(prefixspan(args.seq, args.min_support, args.max_len))
           IN  /\ Len(ret) = Len(multi)
               /\ \A i \in 1..Len(ret) : ret[i] = "PS_" \o JoinWith("_", multi[i])
               /\ \A i, j \in 1..Len(multi) : multi[i] = multi[j] => i = j

\* A prefixspan_motifs call whose patterns have one, two and max_len = 3
\* symbols.
C22_Witness ==
    /\ op = "prefixspan_motifs"
    /\ args.max_len = 3
    /\ LET patterns == prefixspan(args.seq, args.min_support, args.max_len)
       IN  /\ \E i \in 1..Len(patterns) : Len(patterns[i]) = 1
           /\ \E i \in 1..Len(patterns) : Len(patterns[i]) = 3
    /\ Len(ret) >= 2

\* ------------------------------------------------------------ prefixspan: the support floor

RECURSIVE RowsAfter(_, _)
\* The projected database of a prefix: the rows that hold the prefix as a
\* subsequence, each cut to what follows its leftmost embedding.
RowsAfter(rows, prefix) ==
    IF prefix = <<>> THEN rows
    ELSE RowsAfter({SubSeq(r, (CHOOSE k \in 1..Len(r) :
                                  /\ r[k] = Head(prefix)
                                  /\ \A j \in 1..(k - 1) : r[j] # Head(prefix)) + 1,
                           Len(r)) :
                       r \in {q \in rows : \E k \in 1..Len(q) : q[k] = Head(prefix)}},
                   Tail(prefix))

\* The rows in which the symbol x occurs, each counted once.
RowSupport(rows, x) == Cardinality({r \in rows : \E k \in 1..Len(r) : r[k] = x})

\* C23: prefixspan records a pattern p + [x] only if x occurs in at least
\* min_support rows of the projected database of p, each row counted once; so
\* the first symbol of a returned pattern has support min_support or more in
\* the initial database {S}.
C23_SupportFloor ==
    op = "prefixspan" =>
        \A i \in 1..Len(ret) :
            LET pattern == ret[i]
                p == SubSeq(pattern, 1, Len(pattern) - 1)
                x == pattern[Len(pattern)]
            IN  /\ RowSupport(RowsAfter({args.seq}, p), x) >= args.min_support
                /\ RowSupport({args.seq}, pattern[1]) >= args.min_support

\* A prefixspan call with a positive floor that records a pattern of two
\* symbols whose first symbol occurs twice in the sequence.
C23_Witness ==
    /\ op = "prefixspan"
    /\ args.min_support >= 1
    /\ \E i \in 1..Len(ret) :
          /\ Len(ret[i]) >= 2
          /\ CountOf(args.seq, ret[i][1]) >= 2

\* ------------------------------------------------------------ prefixspan: termination and depth

\* The row r is what is left of the row q after some of its first symbols.
ProperSuffix(r, q) == Len(r) < Len(q) /\ r = SubSeq(q, Len(q) - Len(r) + 1, Len(q))

\* The nested project calls stay within max(1, min(max_len, |S| + 1)) and
\* each works on rows strictly shorter than its caller's.
ProjectDepthBounded ==
    pc = "running" =>
        /\ Len(frame.stack) <= Max(1, Min(args.max_len, Len(args.seq) + 1))
        /\ \A d \in 2..Len(frame.stack) :
               \A r \in 1..Len(frame.stack[d].projected_db) :
                   \E q \in 1..Len(frame.stack[d - 1].projected_db) :
                       ProperSuffix(frame.stack[d].projected_db[r],
                                    frame.stack[d - 1].projected_db[q])

\* C24: prefixspan terminates for every finite sequence and every integer
\* min_support and max_len, those at or below zero and a max_len beyond the
\* length included: each project call works on rows strictly shorter than its
\* caller's and at most max(1, min(max_len, |S| + 1)) calls are nested.
C24_Terminates == [] ProjectDepthBounded /\ <>(pc = "done")

\* |S| + 1 project calls are nested, with max_len beyond that.
C24_Witness ==
    /\ pc = "running"
    /\ Len(args.seq) >= 2
    /\ args.max_len > Len(args.seq) + 1
    /\ Len(frame.stack) = Len(args.seq) + 1

\* ------------------------------------------------------------ mining does not read the registry

\* A registry that holds some other raw motif under every hash of a run.
OtherRegistry == [h \in {HashedMotif(m) : m \in RegMotifs} |-> "SQ_X_Y"]

\* C25: unify_motifs and motifs_from_sequence return the same list whatever
\* the registry holds: the list returned after any register, unify_motifs,
\* describe and clear calls is the list returned with an empty registry and
\* with a registry that maps every hash to something else.
C25_MiningIgnoresRegistry ==
    /\ op = "unify_motifs" =>
           \A reg \in {EmptyDict, OtherRegistry} :
               ret = unify_motifs(args.motif_lists, args.max_total, args.register, reg).ret
    /\ op = "motifs_from_sequence" =>
           \A reg \in {EmptyDict, OtherRegistry} :
               ret = motifs_from_sequence(args.seq, DefaultMaxTotal, reg).ret

\* A unify_motifs call that returns a hash while the registry holds entries
\* and a cached description from earlier calls.
C25_Witness ==
    /\ op = "unify_motifs"
    /\ ret # <<>>
    /\ descriptions # EmptyDict
    /\ \E h \in DOMAIN registry : ~InList(h, ret)

\* ------------------------------------------------------------ what each call leaves alone

\* The functions that are pure over their arguments.
PureFunctions == {"canonicalize_event", "transition_motifs", "structural_motifs",
                  "prefixspan", "prefixspan_motifs", "sequitur_rules"}

\* C26: the canonicalizer, the miners and unify_motifs(register=False) leave
\* the hash-to-raw map and the description cache unchanged; get_original and
\* get_category change neither; describe changes only the description cache;
\* the hash-to-raw map changes only in unify_motifs(register=True),
\* motifs_from_sequence and clear.
C26_Frame ==
    [][/\ op' \in PureFunctions \cup {"get_original", "get_category"} =>
              registry' = registry /\ descriptions' = descriptions
       /\ (op' = "unify_motifs" /\ ~args'.register) =>
              registry' = registry /\ descriptions' = descriptions
       /\ op' = "describe" => registry' = registry
       /\ registry' # registry =>
              \/ op' = "unify_motifs" /\ args'.register
              \/ op' \in {"motifs_from_sequence", "clear"}]_vars

\* unify_motifs(register=False) has returned a hash that the registry, which
\* holds other entries, does not hold.
C26_Witness ==
    /\ op = "unify_motifs"
    /\ ~args.register
    /\ registry # EmptyDict
    /\ descriptions # EmptyDict
    /\ \E i \in 1..Len(ret) : ret[i] \notin DOMAIN registry

\* ------------------------------------------------------------ the registry's keys

\* C27: every registry entry h -> r has h = "M_" followed by the first 10 hex
\* characters of the hash of r, so get_original never returns a raw motif
\* whose hash differs from the queried one.
C27_KeyConsistency ==
    /\ \A h \in DOMAIN registry : h = "M_" \o Sha1Hex(registry[h], 10)
    /\ (op = "get_original" /\ ret # PyNone) =>
           "M_" \o Sha1Hex(ret.s, 10) = args.hashed

\* get_original answers with a raw motif for a hash that two unified raw
\* motifs share.
C27_Witness ==
    /\ op = "get_original"
    /\ ret # PyNone
    /\ \E r \in unified : r # ret.s /\ HashedMotif(r) = args.hashed

\* ------------------------------------------------------------ prefixspan: one row

PickAt(seq, positions) ==
    LET upTo[k \in 0..Len(seq)] ==
            IF k = 0 THEN <<>>
            ELSE IF k \in positions THEN Append(upTo[k - 1], seq[k])
            ELSE upTo[k - 1]
    IN  upTo[Len(seq)]

\* The non-empty subsequences of seq, order kept and gaps allowed, of at most
\* max_len symbols.
Subsequences(seq, max_len) ==
    {PickAt(seq, positions) :
        positions \in {I \in SUBSET (1..Len(seq)) : Cardinality(I) \in 1..max_len}}

\* C29: with min_support = 1 and max_len >= 1 prefixspan returns the distinct
\* non-empty subsequences of S of at most max_len symbols, each exactly once,
\* and nothing that is not a subsequence of S.
C29_AllSubsequences ==
    (op = "prefixspan" /\ args.min_support = 1 /\ args.max_len >= 1) =>
        /\ {ret[i] : i \in 1..Len(ret)} = Subsequences(args.seq, args.max_len)
        /\ \A i, j \in 1..Len(ret) : ret[i] = ret[j] => i = j

\* prefixspan with min_support 1 on a sequence longer than max_len >= 2 in
\* which a symbol occurs twice, apart: a returned pattern skips a symbol.
C29_Witness ==
    /\ op = "prefixspan"
    /\ args.min_support = 1
    /\ args.max_len >= 2
    /\ Len(args.seq) > args.max_len
    /\ \E i \in 1..Len(ret) :
          /\ Len(ret[i]) = 2
          /\ ret[i][1] = ret[i][2]
          /\ \A k \in 1..(Len(args.seq) - 1) :
                 ~(args.seq[k] = ret[i][1] /\ args.seq[k + 1] = ret[i][1])

\* ------------------------------------------------------------ concurrent unify_motifs calls

\* Both calls have returned.
BothReturned == \A call \in 1..2 : pc[call] = "done"

\* The first raw motif of a list whose hashed form is h.
FirstWithHash(motifs, h) ==
    motifs[CHOOSE i \in 1..Len(motifs) :
               /\ HashedMotif(motifs[i]) = h
               /\ \A j \in 1..(i - 1) : HashedMotif(motifs[j]) # h]

\* What a call registers under h when it runs alone: nothing, or one raw motif.
RegisteredAlone(motifs, h) ==
    IF \E i \in 1..Len(motifs) : HashedMotif(motifs[i]) = h
    THEN {FirstWithHash(motifs, h)}
    ELSE {}

\* Each call has returned the list it returns when run alone.
ReturnsAsAlone ==
    \A call \in 1..2 :
        ret[call] = unify_motifs(<<args[call].motifs>>, args[call].max_total,
                                 TRUE, EmptyDict).ret

\* The registry two calls leave when the second starts after the first returned.
SerialRegistry ==
    unify_motifs(<<args[2].motifs>>, args[2].max_total, TRUE,
                 unify_motifs(<<args[1].motifs>>, args[1].max_total, TRUE,
                              EmptyDict).registry).registry

\* C30: when two unify_motifs(register=True) calls run concurrently, the final
\* hash-to-raw mapping is the same for every interleaving of their registry
\* writes, also when the calls hold different raw motifs with the same hash,
\* and each call returns the list it returns when run alone.
C30_InterleavingIndependent ==
    BothReturned => (registry = SerialRegistry /\ ReturnsAsAlone)

\* C30, amended: each call returns the list it returns when run alone, and the
\* final mapping holds, under every hash either call registers alone, a raw
\* motif one of them registers alone under it: one mapping for every
\* interleaving unless the calls hold different raw motifs with the same hash.
C30_MappingUpToCollisions ==
    BothReturned =>
        /\ ReturnsAsAlone
        /\ \A h \in DOMAIN registry :
               registry[h] \in RegisteredAlone(args[1].motifs, h)
                               \cup RegisteredAlone(args[2].motifs, h)
        /\ \A call \in 1..2 : \A i \in 1..Len(args[call].motifs) :
               HashedMotif(args[call].motifs[i]) \in DOMAIN registry
        /\ (\A h \in DOMAIN registry :
                Cardinality(RegisteredAlone(args[1].motifs, h)
                            \cup RegisteredAlone(args[2].motifs, h)) = 1)
           => registry = SerialRegistry

\* Both calls have returned, they hold different raw motifs with the same
\* hash, and the registry keeps the one of the first call.
C30_Witness ==
    /\ BothReturned
    /\ \E h \in DOMAIN registry :
          /\ RegisteredAlone(args[2].motifs, h) # {}
          /\ registry[h] \notin RegisteredAlone(args[2].motifs, h)

=============================================================================
